---- MODULE Spec2Model ----
(***************************************************************************)
(* Model of the mcp-pptx rendering pipeline: deck validation, layout       *)
(* resolution with fallback, theme application with the section colour     *)
(* rotation, per-slide error handling, the result envelope, the            *)
(* bold-prefix heuristic for bullets, the code chunk splitter, the         *)
(* normalization and grouping of slide content, and hex colour parsing.    *)
(*                                                                         *)
(* Text is modelled as a sequence of one-character strings, so that the    *)
(* Python string operations (upper, lower, replace, strip, split, index,   *)
(* substring test) are computed character by character.                    *)
(***************************************************************************)
EXTENDS Integers, Sequences, FiniteSets, TLC

VARIABLES
    section_count,   \* ThemeApplicator.section_count of the renderer's applicator
    default_theme,   \* PresentationRenderer._default_theme was loaded
    call,            \* per generate_presentation call: its local state
    lay_in,          \* input of LayoutManager.get_layout under study
    lay_out,         \* its result
    bullet,          \* input line of the bold-prefix heuristic
    split_out,       \* result of the split applied to it
    chunk_io,        \* input and result of _split_code_into_chunks under study
    layout_io,       \* a raw layout string and what SlideSpec validation makes of it
    hex_io,          \* input and result of ThemeApplicator.hex_to_rgb under study
    slide_io,        \* a raw slide, its validated content and what fill_slide does
    theme_io,        \* the fields given to ThemeSpec and what its validation does
    path_io,         \* a deck's title and output settings and the output path
    render_io        \* one slide of the loop: its passes and what they draw

vars == <<section_count, default_theme, call, lay_in, lay_out, bullet, split_out,
          chunk_io, layout_io, hex_io, slide_io, theme_io, path_io, render_io>>

\* the value of a variable of a function that is not under study
NotUsed == [used |-> FALSE]

OthersNotUsed ==
    /\ chunk_io = NotUsed
    /\ layout_io = NotUsed
    /\ hex_io = NotUsed
    /\ slide_io = NotUsed
    /\ theme_io = NotUsed
    /\ path_io = NotUsed
    /\ render_io = NotUsed

(***************************************************************************)
(* Bounds                                                                  *)
(***************************************************************************)
MaxSlides == 4        \* longest deck
MaxConcSlides == 2    \* longest deck of two interleaved calls
MaxLayouts == 7       \* most slide layouts of a presentation under get_layout
MaxWords == 5         \* most leading words of a generated bullet
MaxTail == 5          \* most characters following the leading words
MaxCodeLen == 7       \* most characters of a code text given to the chunk splitter
MaxPerSlide == 3      \* largest max_lines_per_slide given to the chunk splitter
MaxItems == 3         \* longest raw content list of a slide
MaxAnyLayoutSlides == 2   \* longest deck drawn from all layout types
MaxTemplateSlides == 2    \* longest deck rendered into a template file
MaxToolSlides == 2        \* longest deck of a tool call
MaxTitleLen == 3          \* longest deck title of an output path
MaxHexLen == 6        \* most characters of a colour string after its leading '#'s

(***************************************************************************)
(* Python str operations on sequences of characters                        *)
(***************************************************************************)
LowerChars ==
    <<"a","b","c","d","e","f","g","h","i","j","k","l","m",
      "n","o","p","q","r","s","t","u","v","w","x","y","z">>

UpperChars ==
    <<"A","B","C","D","E","F","G","H","I","J","K","L","M",
      "N","O","P","Q","R","S","T","U","V","W","X","Y","Z">>

UpperChar(ch) ==
    IF \E i \in 1..26 : LowerChars[i] = ch
    THEN UpperChars[CHOOSE i \in 1..26 : LowerChars[i] = ch]
    ELSE ch

LowerChar(ch) ==
    IF \E i \in 1..26 : UpperChars[i] = ch
    THEN LowerChars[CHOOSE i \in 1..26 : UpperChars[i] = ch]
    ELSE ch

\* str.upper()
StrUpper(s) == [i \in 1..Len(s) |-> UpperChar(s[i])]

\* str.lower()
StrLower(s) == [i \in 1..Len(s) |-> LowerChar(s[i])]

\* str.replace(a, b) for one-character a and b
StrReplace(s, a, b) == [i \in 1..Len(s) |-> IF s[i] = a THEN b ELSE s[i]]

\* sub occurs in s starting at position i (1-based)
OccursAt(sub, s, i) ==
    /\ i >= 1
    /\ i + Len(sub) - 1 <= Len(s)
    /\ \A j \in 1..Len(sub) : s[i + j - 1] = sub[j]

\* sub in s
StrContains(sub, s) == \E i \in 1..(Len(s) + 1) : OccursAt(sub, s, i)

\* s.index(sub): 0-based position of the first occurrence
StrIndex(sub, s) ==
    (CHOOSE i \in 1..(Len(s) + 1) :
        /\ OccursAt(sub, s, i)
        /\ \A k \in 1..(i - 1) : ~OccursAt(sub, s, k)) - 1

\* s[a:b] with 0-based a, b and 0 <= a
StrSlice(s, a, b) ==
    IF b <= a THEN <<>> ELSE SubSeq(s, a + 1, IF b > Len(s) THEN Len(s) ELSE b)

IsSpace(ch) == ch = " "

RECURSIVE StrLStrip(_)
\* str.lstrip()
StrLStrip(s) ==
    IF s = <<>> THEN <<>>
    ELSE IF IsSpace(Head(s)) THEN StrLStrip(Tail(s)) ELSE s

RECURSIVE StrRStrip(_)
\* str.rstrip()
StrRStrip(s) ==
    IF s = <<>> THEN <<>>
    ELSE IF IsSpace(s[Len(s)]) THEN StrRStrip(SubSeq(s, 1, Len(s) - 1)) ELSE s

\* str.strip()
StrStrip(s) == StrLStrip(StrRStrip(s))

RECURSIVE StrSplitFrom(_, _)
\* str.split(): the maximal runs of non-whitespace characters, cur being the
\* run collected so far
StrSplitFrom(s, cur) ==
    IF s = <<>> THEN (IF cur = <<>> THEN <<>> ELSE <<cur>>)
    ELSE IF IsSpace(Head(s))
         THEN (IF cur = <<>> THEN <<>> ELSE <<cur>>) \o StrSplitFrom(Tail(s), <<>>)
         ELSE StrSplitFrom(Tail(s), Append(cur, Head(s)))

StrSplit(s) == StrSplitFrom(s, <<>>)

(***************************************************************************)
(* models/deck_spec.py: LayoutType                                         *)
(***************************************************************************)
LayoutType ==
    {"TITLE", "TITLE_CONTENT", "SECTION", "TWO_COL", "IMAGE_FOCUS",
     "TABLE", "CHART", "CODE", "BLANK"}

\* the value of each member, as text
LayoutValue ==
    [t \in LayoutType |->
        CASE t = "TITLE" -> <<"T","I","T","L","E">>
          [] t = "TITLE_CONTENT" -> <<"T","I","T","L","E","_","C","O","N","T","E","N","T">>
          [] t = "SECTION" -> <<"S","E","C","T","I","O","N">>
          [] t = "TWO_COL" -> <<"T","W","O","_","C","O","L">>
          [] t = "IMAGE_FOCUS" -> <<"I","M","A","G","E","_","F","O","C","U","S">>
          [] t = "TABLE" -> <<"T","A","B","L","E">>
          [] t = "CHART" -> <<"C","H","A","R","T">>
          [] t = "CODE" -> <<"C","O","D","E">>
          [] t = "BLANK" -> <<"B","L","A","N","K">>]

(***************************************************************************)
(* rendering/layouts.py: LayoutManager                                     *)
(***************************************************************************)
NoLayout == -1     \* None

\* LAYOUT_MAPPINGS.get(layout_type): a 0-based index, or None for CODE
LAYOUT_MAPPINGS(t) ==
    CASE t = "TITLE" -> 0
      [] t = "TITLE_CONTENT" -> 1
      [] t = "SECTION" -> 2
      [] t = "TWO_COL" -> 3
      [] t = "IMAGE_FOCUS" -> 1
      [] t = "TABLE" -> 1
      [] t = "CHART" -> 1
      [] t = "BLANK" -> 6
      [] OTHER -> NoLayout

N_TitleSlide == <<"T","i","t","l","e"," ","S","l","i","d","e">>
N_TitleOnly == <<"T","i","t","l","e"," ","O","n","l","y">>
N_TitleAndContent ==
    <<"T","i","t","l","e"," ","a","n","d"," ","C","o","n","t","e","n","t">>
N_ContentWithCaption ==
    <<"C","o","n","t","e","n","t"," ","w","i","t","h"," ","C","a","p","t","i","o","n">>
N_SectionHeader == <<"S","e","c","t","i","o","n"," ","H","e","a","d","e","r">>
N_TwoContent == <<"T","w","o"," ","C","o","n","t","e","n","t">>
N_Comparison == <<"C","o","m","p","a","r","i","s","o","n">>
N_Blank == <<"B","l","a","n","k">>

\* layout_names: the names searched for each layout type, in order
layout_names(t) ==
    CASE t = "TITLE" -> <<N_TitleSlide, N_TitleOnly>>
      [] t = "TITLE_CONTENT" -> <<N_TitleAndContent, N_ContentWithCaption>>
      [] t = "SECTION" -> <<N_SectionHeader, N_TitleOnly>>
      [] t = "TWO_COL" -> <<N_TwoContent, N_Comparison>>
      [] t = "BLANK" -> <<N_Blank>>
      [] OTHER -> <<>>

\* name.lower() in layout.name.lower()
NameMatches(name, layoutName) == StrContains(StrLower(name), StrLower(layoutName))

\* the nested loops over the names and the layouts: the hits as pairs
\* <<position of the name, 0-based index of the layout>>
NameHits(layouts, t) ==
    {h \in (1..Len(layout_names(t))) \X (0..(Len(layouts) - 1)) :
        NameMatches(layout_names(t)[h[1]], layouts[h[2] + 1])}

\* the first hit in loop order
FirstNameHit(layouts, t) ==
    CHOOSE h \in NameHits(layouts, t) :
        \A g \in NameHits(layouts, t) :
            \/ h[1] < g[1]
            \/ (h[1] = g[1] /\ h[2] <= g[2])

\* variant: without the last resort of the first available layout
LayoutTier_noLastResort(layouts, t) ==
    IF LAYOUT_MAPPINGS(t) # NoLayout /\ LAYOUT_MAPPINGS(t) < Len(layouts) THEN "index"
    ELSE IF NameHits(layouts, t) # {} THEN "name"
    ELSE IF Len(layouts) > 1 THEN "fallback1"
    ELSE "none"

\* the tier by which get_layout resolves: "index", "name", "fallback1",
\* "fallback0" or "none"
LayoutTier(layouts, t) ==
    IF LAYOUT_MAPPINGS(t) # NoLayout /\ LAYOUT_MAPPINGS(t) < Len(layouts) THEN "index"
    ELSE IF NameHits(layouts, t) # {} THEN "name"
    ELSE IF Len(layouts) > 1 THEN "fallback1"
    ELSE IF Len(layouts) > 0 THEN "fallback0"
    ELSE "none"

\* get_layout(prs, layout_type): the 0-based index of the layout returned,
\* or NoLayout for None
get_layout(layouts, t) ==
    CASE LayoutTier(layouts, t) = "index" -> LAYOUT_MAPPINGS(t)
      [] LayoutTier(layouts, t) = "name" -> FirstNameHit(layouts, t)[2]
      [] LayoutTier(layouts, t) = "fallback1" -> 1
      [] LayoutTier(layouts, t) = "fallback0" -> 0
      [] OTHER -> NoLayout

(***************************************************************************)
(* rendering/content_fillers.py: the bold-prefix heuristic                 *)
(***************************************************************************)
\* (None, None)
NoSplit == [matched |-> FALSE, bold |-> <<>>, plain |-> <<>>]

\* (bold_part, plain_part)
SplitOf(bold, plain) == [matched |-> TRUE, bold |-> bold, plain |-> plain]

\* the bold and plain part once the delimiter is found: a space is added to
\* the bold part and the plain part is left-stripped if content follows
WithTrailingSpace(bold, plain) ==
    IF StrStrip(plain) # <<>>
    THEN SplitOf(Append(bold, " "), StrLStrip(plain))
    ELSE SplitOf(bold, plain)

\* variant: up to five words qualify
split_bullet_with_colon_five(b) ==
    IF ~StrContains(<<":">>, b) THEN NoSplit
    ELSE LET colon_index == StrIndex(<<":">>, b)
             words == StrSplit(StrStrip(StrSlice(b, 0, colon_index)))
         IN  IF 1 <= Len(words) /\ Len(words) <= 5
             THEN WithTrailingSpace(StrSlice(b, 0, colon_index + 1),
                                    StrSlice(b, colon_index + 1, Len(b)))
             ELSE NoSplit

\* ContentFiller._split_bullet_with_colon
split_bullet_with_colon(b) ==
    IF ~StrContains(<<":">>, b) THEN NoSplit
    ELSE LET colon_index == StrIndex(<<":">>, b)
             words == StrSplit(StrStrip(StrSlice(b, 0, colon_index)))
         IN  IF 1 <= Len(words) /\ Len(words) <= 4
             THEN WithTrailingSpace(StrSlice(b, 0, colon_index + 1),
                                    StrSlice(b, colon_index + 1, Len(b)))
             ELSE NoSplit

\* the literal " - "
DashLiteral == <<" ", "-", " ">>

\* variant: a prefix without words qualifies
split_bullet_with_dash_empty(b) ==
    IF ~StrContains(DashLiteral, b) THEN NoSplit
    ELSE LET dash_index == StrIndex(DashLiteral, b)
             prefix == StrStrip(StrSlice(b, 0, dash_index))
             words == StrSplit(prefix)
         IN  IF Len(words) <= 4
             THEN WithTrailingSpace(prefix \o <<" ", "-">>,
                                    StrSlice(b, dash_index + 3, Len(b)))
             ELSE NoSplit

\* ContentFiller._split_bullet_with_dash
split_bullet_with_dash(b) ==
    IF ~StrContains(DashLiteral, b) THEN NoSplit
    ELSE LET dash_index == StrIndex(DashLiteral, b)
             prefix == StrStrip(StrSlice(b, 0, dash_index))
             words == StrSplit(prefix)
         IN  IF 1 <= Len(words) /\ Len(words) <= 4
             THEN WithTrailingSpace(prefix \o <<" ", "-">>,
                                    StrSlice(b, dash_index + 3, Len(b)))
             ELSE NoSplit

\* variant: the dash rule is tried first
split_bullet_for_bold_dashFirst(b) ==
    IF split_bullet_with_dash(b).matched THEN split_bullet_with_dash(b)
    ELSE IF split_bullet_with_colon(b).matched THEN split_bullet_with_colon(b)
    ELSE NoSplit

\* ContentFiller._split_bullet_for_bold
split_bullet_for_bold(b) ==
    IF split_bullet_with_colon(b).matched THEN split_bullet_with_colon(b)
    ELSE IF split_bullet_with_dash(b).matched THEN split_bullet_with_dash(b)
    ELSE NoSplit

(***************************************************************************)
(* models/deck_spec.py: validation of the deck specification               *)
(***************************************************************************)
\* variant: spaces are not replaced
normalize_layout_noSpace(v) == StrReplace(StrUpper(v), "-", "_")

\* SlideSpec.normalize_layout on a string
normalize_layout(v) == StrReplace(StrReplace(StrUpper(v), "-", "_"), " ", "_")

\* the enum validation of the layout field that follows the normalization:
\* the members whose value is the normalized text (none: ValidationError)
LayoutMembers(v) == {t \in LayoutType : LayoutValue[t] = normalize_layout(v)}

\* variant: no minimum number of slides
DeckValid_anyLength(args) ==
    \A i \in 1..Len(args.slides) : LayoutMembers(args.slides[i]) # {}

\* DeckSpec.model_validate succeeds: slides has at least one item
\* (min_items=1) and every layout validates to a LayoutType
DeckValid(args) ==
    /\ Len(args.slides) >= 1
    /\ \A i \in 1..Len(args.slides) : LayoutMembers(args.slides[i]) # {}

\* the validated slides: the LayoutType of each
ValidatedSlides(args) ==
    [i \in 1..Len(args.slides) |-> CHOOSE t \in LayoutMembers(args.slides[i]) : TRUE]

\* layout names as they arrive in requests
R_section == <<"s","e","c","t","i","o","n">>
R_two_col == <<"t","w","o","-","c","o","l">>
R_sektion == <<"s","e","k","t","i","o","n">>

RawLayouts == {R_section, R_two_col, R_sektion}

(***************************************************************************)
(* The presentation a call works on                                        *)
(***************************************************************************)
N_PictureWithCaption ==
    <<"P","i","c","t","u","r","e"," ","w","i","t","h"," ","C","a","p","t","i","o","n">>
N_TitleAndVerticalText ==
    <<"T","i","t","l","e"," ","a","n","d"," ","V","e","r","t","i","c","a","l"," ","T","e","x","t">>
N_VerticalTitleAndText ==
    <<"V","e","r","t","i","c","a","l"," ","T","i","t","l","e"," ","a","n","d"," ","T","e","x","t">>

\* Presentation(): the slide layouts of the library's built-in template
DefaultLayouts ==
    <<N_TitleSlide, N_TitleAndContent, N_SectionHeader, N_TwoContent,
      N_Comparison, N_TitleOnly, N_Blank, N_ContentWithCaption,
      N_PictureWithCaption, N_TitleAndVerticalText, N_VerticalTitleAndText>>

\* deck_spec.theme.template: not given; given but not on disk; on disk
\* without any slide layout; on disk but not loadable
TemplateKinds == {"none", "missing", "empty", "corrupt"}

\* the slide layouts of the presentation created for a template kind
\* ("sparse": a loadable template file with the two slide layouts Title Only
\* and Title and Content)
PresentationLayouts(template) ==
    CASE template = "empty" -> <<>>
      [] template = "sparse" -> <<N_TitleOnly, N_TitleAndContent>>
      [] OTHER -> DefaultLayouts

\* a slide that a template file brings along
TemplateSlide ==
    [layout |-> 0, layout_type |-> "TEMPLATE", background |-> "unset",
     title_bar |-> FALSE, number |-> 0]

\* the slides of the presentation created for a template kind: Presentation()
\* has none, Presentation(path) has those of the file ("slides": a loadable
\* template file that holds one slide)
PresentationSlides(template) ==
    IF template = "slides" THEN <<TemplateSlide>> ELSE <<>>

(***************************************************************************)
(* rendering/theme_applicator.py                                           *)
(***************************************************************************)
\* section_colors of apply_slide_background, as palette roles
section_colors == <<"accent", "primary", "secondary">>

\* the background colour apply_slide_background chooses
background_color(layout_type, count) ==
    CASE layout_type = "TITLE" -> "primary"
      [] layout_type = "SECTION" -> section_colors[(count % Len(section_colors)) + 1]
      [] OTHER -> "background"

\* variant: title slides advance the counter as well
NextSectionCount_titleToo(layout_type, count) ==
    IF layout_type \in {"SECTION", "TITLE"} THEN count + 1 ELSE count

\* section_count after apply_slide_background
NextSectionCount(layout_type, count) ==
    IF layout_type = "SECTION" THEN count + 1 ELSE count

(***************************************************************************)
(* rendering/renderer.py: PresentationRenderer.generate_presentation       *)
(***************************************************************************)
Calls == {1, 2}

NoResult == [ok |-> FALSE, error |-> "none", output |-> "none",
             slides_generated |-> -1, warnings |-> <<>>]

NoArgs == [slides |-> <<>>, theme |-> FALSE, template |-> "none"]

IdleCall ==
    [pc |-> "idle", args |-> NoArgs, slides |-> <<>>, theme_to_apply |-> "none",
     layouts |-> <<>>, doc |-> <<>>, pos |-> 1, slides_generated |-> 0,
     warnings |-> <<>>, result |-> NoResult,
     log |-> <<>>, invoked |-> FALSE, fatal |-> FALSE, saved |-> FALSE,
     stale |-> FALSE]

\* theme_to_apply: the scraped theme, else the default theme, else None
ThemeToApply(args, has_default) ==
    IF args.theme THEN "scraped" ELSE IF has_default THEN "default" ELSE "none"

\* variant: the counter is not reset for a new presentation
ResetCount_kept(theme, count) == count

\* section_count after the theme is applied at the start of a call
ResetCount(theme, count) == IF theme # "none" THEN 0 ELSE count

\* variant: code slides get a title bar as well
TitleBarLayouts_withCode ==
    {"TITLE_CONTENT", "TWO_COL", "TABLE", "CHART", "IMAGE_FOCUS", "CODE"}

\* the slides for which a title bar is added
TitleBarLayouts == {"TITLE_CONTENT", "TWO_COL", "TABLE", "CHART", "IMAGE_FOCUS"}

\* the slide number named by the warning of the except handler
FailedSlideNumber(generated, pos) == generated + 1

\* variant: the except handler counts the slide
CountAfterFailure_counted(generated) == generated + 1

\* slides_generated after the except handler of a slide
CountAfterFailure(generated) == generated

\* the position the loop continues at after the except handler
PosAfterFailure(pos, n) == pos + 1

\* variant: the failure envelope reports the slides rendered so far
FailureEnvelope_partial(error, generated, warnings) ==
    [ok |-> FALSE, error |-> error, output |-> "none",
     slides_generated |-> generated, warnings |-> warnings]

\* the envelope returned by the outer except handler
FailureEnvelope(error, generated, warnings) ==
    [ok |-> FALSE, error |-> error, output |-> "none",
     slides_generated |-> 0, warnings |-> warnings]

\* the envelope returned after the save
SuccessEnvelope(generated, warnings) ==
    [ok |-> TRUE, error |-> "none", output |-> "path",
     slides_generated |-> generated, warnings |-> warnings]

\* the envelope MCPPPTXServer._generate_presentation returns when the
\* validation of the deck raises
ValidationEnvelope ==
    [ok |-> FALSE, error |-> "validation", output |-> "none",
     slides_generated |-> 0, warnings |-> <<>>]

\* MCPPPTXServer._generate_presentation up to the slide loop: validation,
\* then the renderer creates the presentation and applies the theme
GenerateRequest(c, args) ==
    LET theme == ThemeToApply(args, default_theme)
        fresh == [IdleCall EXCEPT !.args = args, !.stale = (section_count # 0)]
    IN  /\ call[c].pc = "idle"
        /\ IF ~DeckValid(args)
           THEN /\ call' = [call EXCEPT ![c] =
                        [fresh EXCEPT !.pc = "done", !.result = ValidationEnvelope]]
                /\ UNCHANGED section_count
           ELSE IF args.template = "corrupt"
           THEN /\ call' = [call EXCEPT ![c] =
                        [fresh EXCEPT !.pc = "done", !.invoked = TRUE, !.fatal = TRUE,
                                      !.slides = ValidatedSlides(args),
                                      !.result = FailureEnvelope("template", 0, <<>>)]]
                /\ UNCHANGED section_count
           ELSE /\ call' = [call EXCEPT ![c] =
                        [fresh EXCEPT !.pc = "loop", !.invoked = TRUE,
                                      !.slides = ValidatedSlides(args),
                                      !.theme_to_apply = theme,
                                      !.layouts = PresentationLayouts(args.template),
                                      !.doc = PresentationSlides(args.template),
                                      !.warnings =
                                          IF args.template = "missing"
                                          THEN <<[kind |-> "template_not_found", n |-> 0]>>
                                          ELSE <<>>]]
                /\ section_count' = ResetCount(theme, section_count)
        /\ UNCHANGED <<default_theme, lay_in, lay_out, bullet, split_out,
                     chunk_io, layout_io, hex_io, slide_io,
                     theme_io, path_io, render_io>>

\* one iteration of the slide loop up to the await of fill_slide: layout,
\* add_slide, background, title bar; or the except handler when add_slide
\* raises
SlideBegin(c, outcomes) ==
    LET st == call[c]
        layout_type == st.slides[st.pos]
        first == get_layout(st.layouts, layout_type)
        layout == IF first = NoLayout THEN get_layout(st.layouts, "TITLE_CONTENT") ELSE first
        warn == IF first = NoLayout
                THEN <<[kind |-> "layout_not_found", n |-> st.pos]>> ELSE <<>>
        themed == st.theme_to_apply # "none"
        slide == [layout |-> layout, layout_type |-> layout_type,
                  background |-> IF themed THEN background_color(layout_type, section_count)
                                 ELSE "unset",
                  title_bar |-> themed /\ layout_type \in TitleBarLayouts,
                  number |-> 0]
    IN  /\ st.pc = "loop"
        /\ st.pos <= Len(st.slides)
        /\ \E raises \in outcomes :
             IF layout = NoLayout \/ raises
             THEN /\ call' = [call EXCEPT ![c] =
                        [st EXCEPT !.warnings = st.warnings \o warn \o
                                       <<[kind |-> "slide_failed",
                                          n |-> FailedSlideNumber(st.slides_generated, st.pos)]>>,
                                   !.slides_generated = CountAfterFailure(st.slides_generated),
                                   !.pos = PosAfterFailure(st.pos, Len(st.slides)),
                                   !.log = Append(st.log, "failed")]]
                  /\ UNCHANGED section_count
             ELSE /\ call' = [call EXCEPT ![c] =
                        [st EXCEPT !.warnings = st.warnings \o warn,
                                   !.doc = Append(st.doc, slide),
                                   !.pc = "await"]]
                  /\ section_count' = IF themed
                                      THEN NextSectionCount(layout_type, section_count)
                                      ELSE section_count
        /\ UNCHANGED <<default_theme, lay_in, lay_out, bullet, split_out,
                     chunk_io, layout_io, hex_io, slide_io,
                     theme_io, path_io, render_io>>

\* the rest of the iteration: fill_slide has returned, the slide is counted
\* and gets its footer and slide number
SlideEnd(c) ==
    LET st == call[c]
        generated == st.slides_generated + 1
    IN  /\ st.pc = "await"
        /\ call' = [call EXCEPT ![c] =
              [st EXCEPT !.slides_generated = generated,
                         !.doc = [st.doc EXCEPT ![Len(st.doc)].number = generated],
                         !.pos = st.pos + 1,
                         !.log = Append(st.log, "ok"),
                         !.pc = "loop"]]
        /\ UNCHANGED <<section_count, default_theme, lay_in, lay_out, bullet, split_out,
                     chunk_io, layout_io, hex_io, slide_io,
                     theme_io, path_io, render_io>>

\* after the loop: output path, output directory, save, and the envelope
Finish(c, outcomes) ==
    LET st == call[c]
    IN  /\ st.pc = "loop"
        /\ st.pos > Len(st.slides)
        /\ \E io \in outcomes :
             call' = [call EXCEPT ![c] =
                IF io = "ok"
                THEN [st EXCEPT !.pc = "done", !.saved = TRUE,
                                !.result = SuccessEnvelope(st.slides_generated, st.warnings)]
                ELSE [st EXCEPT !.pc = "done", !.fatal = TRUE,
                                !.result = FailureEnvelope(io, st.slides_generated, st.warnings)]]
        /\ UNCHANGED <<section_count, default_theme, lay_in, lay_out, bullet, split_out,
                     chunk_io, layout_io, hex_io, slide_io,
                     theme_io, path_io, render_io>>

\* the envelope has been handed to the client and the call's locals are gone
Return(c) ==
    /\ call[c].pc = "done"
    /\ call' = [call EXCEPT ![c] = IdleCall]
    /\ UNCHANGED <<section_count, default_theme, lay_in, lay_out, bullet, split_out,
                     chunk_io, layout_io, hex_io, slide_io,
                     theme_io, path_io, render_io>>

(***************************************************************************)
(* The server: one renderer, requests handled one after the other          *)
(***************************************************************************)
\* the decks of the requests
Decks(maxlen, raws, themes, templates) ==
    {[slides |-> s, theme |-> th, template |-> tp] :
        s \in UNION {[1..n -> raws] : n \in 0..maxlen},
        th \in themes, tp \in templates}

\* what the output directory creation and the save can do
IOOutcomes == {"ok", "mkdir", "save"}

Requests == Decks(MaxSlides, RawLayouts, BOOLEAN, TemplateKinds)

Init ==
    /\ section_count = 0
    /\ default_theme \in BOOLEAN
    /\ call = [c \in Calls |-> IdleCall]
    /\ lay_in = [layouts |-> <<>>, layout_type |-> "TITLE"]
    /\ lay_out = [called |-> FALSE, layout |-> NoLayout]
    /\ bullet = <<>>
    /\ split_out = [rule |-> "none", res |-> NoSplit]
    /\ OthersNotUsed

Next ==
    \/ \E args \in Requests : GenerateRequest(1, args)
    \/ SlideBegin(1, BOOLEAN)
    \/ SlideEnd(1)
    \/ Finish(1, IOOutcomes)
    \/ Return(1)

Spec == Init /\ [][Next]_vars

(***************************************************************************)
(* The same server on short decks drawn from all layout types              *)
(***************************************************************************)
AnyLayoutRequests ==
    Decks(MaxAnyLayoutSlides, {LayoutValue[t] : t \in LayoutType}, BOOLEAN, {"none"})

NextAnyLayout ==
    \/ \E args \in AnyLayoutRequests : GenerateRequest(1, args)
    \/ SlideBegin(1, BOOLEAN)
    \/ SlideEnd(1)
    \/ Finish(1, {"ok"})
    \/ Return(1)

SpecAnyLayout == Init /\ [][NextAnyLayout]_vars

(***************************************************************************)
(* The same server on short decks rendered into template files             *)
(***************************************************************************)
TemplateRequests == Decks(MaxTemplateSlides, RawLayouts, BOOLEAN, {"slides", "sparse"})

NextTemplate ==
    \/ \E args \in TemplateRequests : GenerateRequest(1, args)
    \/ SlideBegin(1, BOOLEAN)
    \/ SlideEnd(1)
    \/ Finish(1, {"ok"})
    \/ Return(1)

SpecTemplate == Init /\ [][NextTemplate]_vars

(***************************************************************************)
(* server.py: MCPPPTXServer.handle_call_tool on generate_presentation      *)
(***************************************************************************)
\* the envelope the except handler of handle_call_tool returns when the
\* tool method raises
ToolErrorEnvelope(error, name) ==
    [ok |-> FALSE, error |-> error, tool |-> name]

\* a call whose arguments have no "deck_spec": the subscript at the top of
\* _generate_presentation raises KeyError before the method's try is
\* entered, and handle_call_tool catches it
GenerateWithoutDeckSpec(c) ==
    /\ call[c].pc = "idle"
    /\ call' = [call EXCEPT ![c] =
            [IdleCall EXCEPT !.pc = "done", !.stale = (section_count # 0),
                             !.result = ToolErrorEnvelope("deck_spec",
                                                          "generate_presentation")]]
    /\ UNCHANGED <<section_count, default_theme, lay_in, lay_out, bullet, split_out,
                     chunk_io, layout_io, hex_io, slide_io,
                     theme_io, path_io, render_io>>

ToolRequests == Decks(MaxToolSlides, RawLayouts, BOOLEAN, {"none", "corrupt"})

NextTool ==
    \/ \E args \in ToolRequests : GenerateRequest(1, args)
    \/ GenerateWithoutDeckSpec(1)
    \/ SlideBegin(1, BOOLEAN)
    \/ SlideEnd(1)
    \/ Finish(1, IOOutcomes)
    \/ Return(1)

SpecTool == Init /\ [][NextTool]_vars

(***************************************************************************)
(* Two calls on the one renderer, switching at the await of fill_slide     *)
(***************************************************************************)
ConcRequests == Decks(MaxConcSlides, {R_section, R_two_col}, {TRUE}, {"none"})

\* every other call is suspended at its await, or not running
OthersSuspended(c) ==
    \A d \in Calls \ {c} : call[d].pc \in {"idle", "await", "done"}

NextConc ==
    \E c \in Calls :
        /\ OthersSuspended(c)
        /\ \/ \E args \in ConcRequests : GenerateRequest(c, args)
           \/ SlideBegin(c, {FALSE})
           \/ SlideEnd(c)
           \/ Finish(c, {"ok"})
           \/ Return(c)

SpecConc == Init /\ [][NextConc]_vars

(***************************************************************************)
(* LayoutManager.get_layout on its own                                     *)
(***************************************************************************)
N_MyTitleOnly == <<"m","y"," ","t","i","t","l","e"," ","o","n","l","y">>

\* names of the slide layouts of the presentations tried
TriedNames == {N_Blank, N_TwoContent, N_MyTitleOnly}

NotCalled == [called |-> FALSE, layout |-> NoLayout]

InitLayout ==
    /\ lay_in \in [layouts : UNION {[1..n -> TriedNames] : n \in 0..MaxLayouts},
                    layout_type : LayoutType]
    /\ lay_out = NotCalled
    /\ section_count = 0
    /\ default_theme = FALSE
    /\ call = [c \in Calls |-> IdleCall]
    /\ bullet = <<>>
    /\ split_out = [rule |-> "none", res |-> NoSplit]
    /\ OthersNotUsed

GetLayout ==
    /\ ~lay_out.called
    /\ lay_out' = [called |-> TRUE,
                   layout |-> get_layout(lay_in.layouts, lay_in.layout_type)]
    /\ UNCHANGED <<lay_in, section_count, default_theme, call, bullet, split_out,
                     chunk_io, layout_io, hex_io, slide_io,
                     theme_io, path_io, render_io>>

SpecLayout == InitLayout /\ [][GetLayout]_vars

(***************************************************************************)
(* The bold-prefix heuristic on its own                                    *)
(***************************************************************************)
BulletChars == {"a", " ", ":", "-"}

\* k words separated by single spaces
RECURSIVE LeadingWords(_)
LeadingWords(k) ==
    IF k = 0 THEN <<>>
    ELSE IF k = 1 THEN <<"a">>
    ELSE LeadingWords(k - 1) \o <<" ", "a">>

\* the lines tried: up to MaxWords words followed by up to MaxTail characters
Bullets ==
    {LeadingWords(k) \o t :
        k \in 0..MaxWords,
        t \in UNION {[1..n -> BulletChars] : n \in 0..MaxTail}}

NotSplit == [rule |-> "none", res |-> NoSplit]

InitBullet ==
    /\ bullet \in Bullets
    /\ split_out = NotSplit
    /\ OthersNotUsed
    /\ lay_in = [layouts |-> <<>>, layout_type |-> "TITLE"]
    /\ lay_out = NotCalled
    /\ section_count = 0
    /\ default_theme = FALSE
    /\ call = [c \in Calls |-> IdleCall]

SplitColon ==
    /\ split_out.rule = "none"
    /\ split_out' = [rule |-> "colon", res |-> split_bullet_with_colon(bullet)]
    /\ UNCHANGED <<bullet, lay_in, lay_out, section_count, default_theme, call,
                     chunk_io, layout_io, hex_io, slide_io,
                     theme_io, path_io, render_io>>

SplitDash ==
    /\ split_out.rule = "none"
    /\ split_out' = [rule |-> "dash", res |-> split_bullet_with_dash(bullet)]
    /\ UNCHANGED <<bullet, lay_in, lay_out, section_count, default_theme, call,
                     chunk_io, layout_io, hex_io, slide_io,
                     theme_io, path_io, render_io>>

SplitForBold ==
    /\ split_out.rule = "none"
    /\ split_out' = [rule |-> "bold", res |-> split_bullet_for_bold(bullet)]
    /\ UNCHANGED <<bullet, lay_in, lay_out, section_count, default_theme, call,
                     chunk_io, layout_io, hex_io, slide_io,
                     theme_io, path_io, render_io>>

NextBullet == SplitColon \/ SplitDash \/ SplitForBold

SpecBullet == InitBullet /\ [][NextBullet]_vars

(***************************************************************************)
(* rendering/content_fillers.py: splitting code into chunks                *)
(***************************************************************************)
NewLine == "\n"

\* str.split(sep) for a separator of one character
RECURSIVE StrSplitOn(_, _)
StrSplitOn(s, sep) ==
    IF \A i \in 1..Len(s) : s[i] # sep THEN <<s>>
    ELSE LET i == CHOOSE j \in 1..Len(s) :
                      s[j] = sep /\ \A k \in 1..(j - 1) : s[k] # sep
         IN  <<SubSeq(s, 1, i - 1)>> \o StrSplitOn(SubSeq(s, i + 1, Len(s)), sep)

\* sep.join(parts) for a separator of one character
RECURSIVE StrJoin(_, _)
StrJoin(sep, parts) ==
    IF parts = <<>> THEN <<>>
    ELSE IF Len(parts) = 1 THEN parts[1]
    ELSE parts[1] \o <<sep>> \o StrJoin(sep, Tail(parts))

\* variant: a chunk is closed one line late
ChunkFull_late(current_chunk, max_lines_per_slide) ==
    Len(current_chunk) > max_lines_per_slide

\* the test that closes the current chunk
ChunkFull(current_chunk, max_lines_per_slide) ==
    Len(current_chunk) >= max_lines_per_slide

\* the loop over the lines and the flush of the last chunk
RECURSIVE ChunkLoop(_, _, _, _)
ChunkLoop(lines, current_chunk, chunks, max_lines_per_slide) ==
    IF lines = <<>>
    THEN IF current_chunk # <<>>
         THEN Append(chunks, StrJoin(NewLine, current_chunk))
         ELSE chunks
    ELSE LET appended == Append(current_chunk, Head(lines))
         IN  IF ChunkFull(appended, max_lines_per_slide)
             THEN ChunkLoop(Tail(lines), <<>>,
                            Append(chunks, StrJoin(NewLine, appended)),
                            max_lines_per_slide)
             ELSE ChunkLoop(Tail(lines), appended, chunks, max_lines_per_slide)

\* variant: the loop starts at the second line
split_code_into_chunks_skipFirst(code, max_lines_per_slide) ==
    LET lines == StrSplitOn(code, NewLine)
    IN  IF Len(lines) <= max_lines_per_slide THEN <<code>>
        ELSE ChunkLoop(Tail(lines), <<>>, <<>>, max_lines_per_slide)

\* ContentFiller._split_code_into_chunks
split_code_into_chunks(code, max_lines_per_slide) ==
    LET lines == StrSplitOn(code, NewLine)
    IN  IF Len(lines) <= max_lines_per_slide THEN <<code>>
        ELSE ChunkLoop(lines, <<>>, <<>>, max_lines_per_slide)

\* the other functions are not under study
RendererNotUsed ==
    /\ section_count = 0
    /\ default_theme = FALSE
    /\ call = [c \in Calls |-> IdleCall]
    /\ lay_in = [layouts |-> <<>>, layout_type |-> "TITLE"]
    /\ lay_out = NotCalled
    /\ bullet = <<>>
    /\ split_out = NotSplit

CodeChars == {"x", NewLine}

\* the code texts tried
Codes == UNION {[1..n -> CodeChars] : n \in 0..MaxCodeLen}

InitChunks ==
    /\ chunk_io \in [used : {TRUE}, code : Codes, max_lines_per_slide : 1..MaxPerSlide,
                      called : {FALSE}, chunks : {<<>>}]
    /\ layout_io = NotUsed
    /\ hex_io = NotUsed
    /\ slide_io = NotUsed
    /\ RendererNotUsed
    /\ theme_io = NotUsed
    /\ path_io = NotUsed
    /\ render_io = NotUsed

SplitCode ==
    /\ ~chunk_io.called
    /\ chunk_io' = [chunk_io EXCEPT
                        !.called = TRUE,
                        !.chunks = split_code_into_chunks(chunk_io.code,
                                                          chunk_io.max_lines_per_slide)]
    /\ UNCHANGED <<section_count, default_theme, call, lay_in, lay_out, bullet,
                   split_out, layout_io, hex_io, slide_io,
                     theme_io, path_io, render_io>>

SpecChunks == InitChunks /\ [][SplitCode]_vars

(***************************************************************************)
(* models/deck_spec.py and rendering/content_fillers.py: the content of    *)
(* one slide, from the raw request to the shapes placed on the slide       *)
(***************************************************************************)
\* Optional[...] values: None, or one value
None == <<>>
Some(v) == <<v>>

\* the truth value Python gives an optional string or list
Truthy(opt) == opt # None /\ opt[1] # <<>>

\* Python's `a or b` on optional strings
PyOr(a, b) == IF Truthy(a) THEN a ELSE b

\* raw JSON values of a request: a string, a mapping, a list, a number, or
\* no content field at all
PyStr(t) == [py |-> "str", s |-> t]
PyDict(f) == [py |-> "dict", d |-> f]
PyList(items) == [py |-> "list", l |-> items]
PyInt == [py |-> "int"]
Absent == [py |-> "absent"]

\* ContentType
ContentType == {"text", "bullets", "image", "table", "chart", "code"}

\* the optional value of key k of mapping d
Field(d, k) == IF k \in DOMAIN d THEN Some(d[k]) ELSE None

\* SlideContent built from a mapping: the type defaults to text, every other
\* field to None (the table and chart fields are not modelled)
SlideContent(d) ==
    [type |-> IF "type" \in DOMAIN d THEN d["type"] ELSE "text",
     text |-> Field(d, "text"),
     bullets |-> Field(d, "bullets"),
     image |-> Field(d, "image"),
     code |-> Field(d, "code"),
     position |-> Field(d, "position"),
     left |-> Field(d, "left"),
     right |-> Field(d, "right")]

\* mapping d with key k set to v
WithKey(d, k, v) == [x \in DOMAIN d \cup {k} |-> IF x = k THEN v ELSE d[x]]

\* mapping d without key k
WithoutKey(d, k) == [x \in DOMAIN d \ {k} |-> d[x]]

\* variant: 'items' is not renamed to 'bullets'
normalize_item_keepItems(d) ==
    LET renamed == d
    IN  IF "type" \in DOMAIN renamed THEN renamed
        ELSE IF "bullets" \in DOMAIN renamed \/ "items" \in DOMAIN renamed
             THEN WithKey(renamed, "type", "bullets")
        ELSE WithKey(renamed, "type", "text")

\* SlideSpec.normalize_content on one mapping of the list
normalize_item(d) ==
    LET renamed == IF "items" \in DOMAIN d /\ "bullets" \notin DOMAIN d
                   THEN WithKey(WithoutKey(d, "items"), "bullets", d["items"])
                   ELSE d
    IN  IF "type" \in DOMAIN renamed THEN renamed
        ELSE IF "bullets" \in DOMAIN renamed \/ "items" \in DOMAIN renamed
             THEN WithKey(renamed, "type", "bullets")
        ELSE WithKey(renamed, "type", "text")

\* the loop of normalize_content over the items of a list
RECURSIVE normalize_items(_)
normalize_items(l) ==
    IF l = <<>> THEN <<>>
    ELSE LET item == Head(l)
             rest == normalize_items(Tail(l))
         IN  IF item.py = "dict" THEN <<PyDict(normalize_item(item.d))>> \o rest
             ELSE IF item.py = "str"
                  THEN IF StrStrip(item.s) # <<>>
                       THEN <<PyDict([type |-> "text", text |-> item.s])>> \o rest
                       ELSE rest
             ELSE <<item>> \o rest

\* SlideSpec.normalize_content
normalize_content(v) ==
    IF v.py = "dict" /\ ("left" \in DOMAIN v.d \/ "right" \in DOMAIN v.d)
    THEN PyList(<<PyDict(IF "type" \in DOMAIN v.d THEN v.d
                         ELSE WithKey(v.d, "type", "text"))>>)
    ELSE IF v.py = "dict" THEN PyList(normalize_items(<<v>>))
    ELSE IF v.py # "list" THEN v
    ELSE PyList(normalize_items(v.l))

\* the validation of the content field as List[SlideContent] that follows:
\* the value is a list of mappings with a known type
ContentValid(v) ==
    \/ v.py = "absent"
    \/ /\ normalize_content(v).py = "list"
       /\ \A i \in 1..Len(normalize_content(v).l) :
             /\ normalize_content(v).l[i].py = "dict"
             /\ SlideContent(normalize_content(v).l[i].d).type \in ContentType

\* the validated content: a list of SlideContent (empty by default)
ValidatedContent(v) ==
    IF v.py = "absent" THEN <<>>
    ELSE [i \in 1..Len(normalize_content(v).l) |->
             SlideContent(normalize_content(v).l[i].d)]

\* is_simple_text of _group_text_items_as_bullets
is_simple_text(item) ==
    /\ item.type = "text"
    /\ Truthy(item.text)
    /\ ~Truthy(item.left)
    /\ ~Truthy(item.right)

\* SlideContent(type=ContentType.BULLETS, bullets=text_items)
BulletsItem(text_items) == SlideContent([type |-> "bullets", bullets |-> text_items])

RECURSIVE TextsOf(_)
TextsOf(content_items) ==
    IF content_items = <<>> THEN <<>>
    ELSE (IF is_simple_text(Head(content_items))
          THEN <<Head(content_items).text[1]>> ELSE <<>>)
         \o TextsOf(Tail(content_items))

RECURSIVE OthersOf(_)
OthersOf(content_items) ==
    IF content_items = <<>> THEN <<>>
    ELSE (IF is_simple_text(Head(content_items))
          THEN <<>> ELSE <<Head(content_items)>>)
         \o OthersOf(Tail(content_items))

\* ContentFiller._group_text_items_as_bullets
group_text_items_as_bullets(content_items) ==
    LET text_items == TextsOf(content_items)
        other_items == OthersOf(content_items)
    IN  IF content_items = <<>> THEN content_items
        ELSE IF Len(text_items) > 1 /\ other_items = <<>>
             THEN <<BulletsItem(text_items)>>
        ELSE IF Len(text_items) > 0
             THEN (IF Len(text_items) > 1 THEN <<BulletsItem(text_items)>>
                   ELSE <<content_items[1]>>) \o other_items
        ELSE content_items

\* the default of max_lines_per_slide
DefaultMaxLines == 25

\* what a _fill_* method puts on the slide
Placed(op, text, bullets) == [op |-> op, text |-> text, bullets |-> bullets]

\* ContentFiller._fill_content on a slide with the placeholders it looks for:
\* the shapes placed for one body item
fill_content(content) ==
    IF Truthy(content.left) \/ Truthy(content.right)
    THEN <<Placed("two_column", <<>>,
                  (IF Truthy(content.left) THEN content.left[1] ELSE <<>>) \o
                  (IF Truthy(content.right) THEN content.right[1] ELSE <<>>))>>
    ELSE IF content.type = "text"
         THEN IF Truthy(content.text) THEN <<Placed("text", content.text[1], <<>>)>>
              ELSE <<Placed("two_column", <<>>, <<>>)>>
    ELSE IF content.type = "bullets"
         THEN <<Placed("bullets", <<>>,
                       IF Truthy(content.bullets) THEN content.bullets[1] ELSE <<>>)>>
    ELSE IF content.type = "image"
         THEN IF content.image # None THEN <<Placed("image", <<>>, <<>>)>> ELSE <<>>
    ELSE IF content.type = "code"
         THEN IF Truthy(content.code) THEN <<Placed("code", content.code[1], <<>>)>>
              ELSE <<>>
    ELSE <<>>

RECURSIVE fill_contents(_)
fill_contents(body_content) ==
    IF body_content = <<>> THEN <<>>
    ELSE fill_content(Head(body_content)) \o fill_contents(Tail(body_content))

\* the loop of fill_slide over the content: the text of the position-tagged
\* items seen so far
RECURSIVE TaggedText(_, _, _)
TaggedText(content, position, so_far) ==
    IF content = <<>> THEN so_far
    ELSE TaggedText(Tail(content), position,
                    IF Head(content).position = Some(position)
                    THEN Head(content).text ELSE so_far)

\* the items of the content that are not tagged title or subtitle
RECURSIVE BodyOf(_)
BodyOf(content) ==
    IF content = <<>> THEN <<>>
    ELSE (IF Head(content).position \in {Some("title"), Some("subtitle")}
          THEN <<>> ELSE <<Head(content)>>)
         \o BodyOf(Tail(content))

\* ContentFiller.fill_slide on the slide the renderer added for slide_spec:
\* the title and subtitle used, the grouped body, and the shapes placed
fill_slide(slide_spec) ==
    LET title_text == PyOr(slide_spec.title, TaggedText(slide_spec.content, "title", None))
        subtitle_text == PyOr(slide_spec.subtitle,
                              TaggedText(slide_spec.content, "subtitle", None))
        body_content == IF BodyOf(slide_spec.content) # <<>>
                        THEN group_text_items_as_bullets(BodyOf(slide_spec.content))
                        ELSE <<>>
    IN  [title_text |-> title_text,
         subtitle_text |-> subtitle_text,
         body_content |-> body_content,
         placed |-> (IF Truthy(title_text)
                     THEN <<Placed("title", title_text[1], <<>>)>> ELSE <<>>) \o
                    (IF Truthy(subtitle_text)
                     THEN <<Placed("subtitle", subtitle_text[1], <<>>)>> ELSE <<>>) \o
                    fill_contents(body_content)]

\* texts
T_a == <<"a">>
T_b == <<"b">>
T_c == <<"c">>
T_d == <<"d">>
T_blank == <<" ">>
T_title == <<"T">>
T_subtitle == <<"S">>

\* a code of DefaultMaxLines + 1 lines
LongCode == [i \in 1..(2 * DefaultMaxLines + 1) |-> IF i % 2 = 1 THEN "x" ELSE NewLine]

\* the raw items tried
RawItems ==
    {PyStr(T_a), PyStr(T_b), PyStr(T_blank),
     PyDict([text |-> T_c, position |-> "title"]),
     PyDict([text |-> T_d, position |-> "title"]),
     PyDict([position |-> "title"]),
     PyDict([text |-> T_c, position |-> "subtitle"]),
     PyDict([text |-> T_d, position |-> "subtitle"]),
     PyDict([items |-> <<T_a, T_b>>]),
     PyDict([type |-> "code", code |-> LongCode]),
     PyDict([type |-> "image", image |-> "img"]),
     PyDict([left |-> <<T_a>>, right |-> <<T_b>>]),
     PyInt}

\* the raw content fields tried
RawContents ==
    {Absent} \cup RawItems \cup
    {PyList(l) : l \in UNION {[1..n -> RawItems] : n \in 0..MaxItems}}

NotFilled == [title_text |-> None, subtitle_text |-> None,
              body_content |-> <<>>, placed |-> <<>>]

InitSlide ==
    /\ slide_io \in [used : {TRUE},
                      title : {None, Some(T_title)},
                      subtitle : {None, Some(T_subtitle)},
                      raw : RawContents,
                      pc : {"raw"},
                      content : {<<>>},
                      slides : {<<>>},
                      out : {NotFilled}]
    /\ chunk_io = NotUsed
    /\ layout_io = NotUsed
    /\ hex_io = NotUsed
    /\ RendererNotUsed
    /\ theme_io = NotUsed
    /\ path_io = NotUsed
    /\ render_io = NotUsed

\* SlideSpec validation of the content field
ValidateSlide ==
    /\ slide_io.pc = "raw"
    /\ slide_io' = IF ContentValid(slide_io.raw)
                   THEN [slide_io EXCEPT !.pc = "valid",
                                         !.content = ValidatedContent(slide_io.raw)]
                   ELSE [slide_io EXCEPT !.pc = "invalid"]
    /\ UNCHANGED <<section_count, default_theme, call, lay_in, lay_out, bullet,
                   split_out, chunk_io, layout_io, hex_io,
                     theme_io, path_io, render_io>>

\* the renderer adds one slide for the slide specification and fills it
FillSlide ==
    /\ slide_io.pc = "valid"
    /\ LET out == fill_slide([title |-> slide_io.title, subtitle |-> slide_io.subtitle,
                              content |-> slide_io.content])
       IN  slide_io' = [slide_io EXCEPT !.pc = "filled", !.out = out,
                                        !.slides = <<out.placed>>]
    /\ UNCHANGED <<section_count, default_theme, call, lay_in, lay_out, bullet,
                   split_out, chunk_io, layout_io, hex_io,
                     theme_io, path_io, render_io>>

NextSlide == ValidateSlide \/ FillSlide

SpecSlide == InitSlide /\ [][NextSlide]_vars

(***************************************************************************)
(* models/deck_spec.py: the layout field of a slide on its own             *)
(***************************************************************************)
\* the spellings of one character of a layout name: either letter case, and
\* underscore, hyphen or space
Spellings(ch) ==
    IF ch = "_" THEN {"_", "-", " "} ELSE {UpperChar(ch), LowerChar(ch)}

\* the strings that differ from name only in letter case and in the
\* spelling of the underscore
RECURSIVE Variants(_)
Variants(name) ==
    IF name = <<>> THEN {<<>>}
    ELSE {<<ch>> \o rest : ch \in Spellings(Head(name)), rest \in Variants(Tail(name))}

\* the raw layout strings tried: the variants of every layout name, and
\* strings that are no variant of any
LayoutStrings ==
    UNION {Variants(LayoutValue[t]) : t \in LayoutType}
    \cup {R_sektion, <<"t","w","o","c","o","l">>, <<"c","o","d","e"," ">>, <<>>}

InitLayoutField ==
    /\ layout_io \in [used : {TRUE}, raw : LayoutStrings, validated : {FALSE},
                       normalized : {<<>>}, members : {{}}]
    /\ chunk_io = NotUsed
    /\ hex_io = NotUsed
    /\ slide_io = NotUsed
    /\ RendererNotUsed
    /\ theme_io = NotUsed
    /\ path_io = NotUsed
    /\ render_io = NotUsed

\* SlideSpec validation of the layout field: normalize_layout, then the enum
ValidateLayout ==
    /\ ~layout_io.validated
    /\ layout_io' = [layout_io EXCEPT !.validated = TRUE,
                                      !.normalized = normalize_layout(layout_io.raw),
                                      !.members = LayoutMembers(layout_io.raw)]
    /\ UNCHANGED <<section_count, default_theme, call, lay_in, lay_out, bullet,
                   split_out, chunk_io, hex_io, slide_io,
                     theme_io, path_io, render_io>>

\* normalize_layout applied to its own result
NormalizeAgain ==
    /\ layout_io.validated
    /\ layout_io.normalized # layout_io.raw
    /\ layout_io' = [layout_io EXCEPT !.raw = layout_io.normalized,
                                      !.validated = FALSE,
                                      !.normalized = <<>>, !.members = {}]
    /\ UNCHANGED <<section_count, default_theme, call, lay_in, lay_out, bullet,
                   split_out, chunk_io, hex_io, slide_io,
                     theme_io, path_io, render_io>>

NextLayoutField == ValidateLayout \/ NormalizeAgain

SpecLayoutField == InitLayoutField /\ [][NextLayoutField]_vars

(***************************************************************************)
(* rendering/theme_applicator.py: hex_to_rgb on its own                    *)
(***************************************************************************)
HexDigits == <<"0","1","2","3","4","5","6","7","8","9","a","b","c","d","e","f">>

IsHexDigit(ch) == \E k \in 1..16 : HexDigits[k] = LowerChar(ch)

HexDigitValue(ch) == (CHOOSE k \in 1..16 : HexDigits[k] = LowerChar(ch)) - 1

\* the value of a string of hex digits
RECURSIVE HexNumber(_)
HexNumber(digits) ==
    IF digits = <<>> THEN 0
    ELSE 16 * HexNumber(SubSeq(digits, 1, Len(digits) - 1))
         + HexDigitValue(digits[Len(digits)])

\* str.lstrip(ch)
RECURSIVE StrLStripChar(_, _)
StrLStripChar(s, ch) ==
    IF s # <<>> /\ Head(s) = ch THEN StrLStripChar(Tail(s), ch) ELSE s

\* int(s, 16) on a string of two characters without '_' and 'x': surrounding
\* whitespace and one sign are accepted; ok is FALSE for ValueError
int16(s) ==
    LET t == StrStrip(s)
        signed == t # <<>> /\ t[1] \in {"+", "-"}
        digits == IF signed THEN Tail(t) ELSE t
    IN  IF digits # <<>> /\ \A i \in 1..Len(digits) : IsHexDigit(digits[i])
        THEN [ok |-> TRUE,
              value |-> IF signed /\ t[1] = "-" THEN 0 - HexNumber(digits)
                        ELSE HexNumber(digits)]
        ELSE [ok |-> FALSE, value |-> 0]

Black == <<0, 0, 0>>

\* RGBColor(r, g, b) raises ValueError unless the three values are in 0..255
RGBColorValid(r, g, b) == \A v \in {r, g, b} : 0 <= v /\ v <= 255

\* ThemeApplicator.hex_to_rgb
hex_to_rgb(hex_color) ==
    LET stripped == StrLStripChar(hex_color, "#")
        six == IF Len(stripped) # 6 THEN <<"0","0","0","0","0","0">> ELSE stripped
        r == int16(StrSlice(six, 0, 2))
        g == int16(StrSlice(six, 2, 4))
        b == int16(StrSlice(six, 4, 6))
    IN  IF r.ok /\ g.ok /\ b.ok /\ RGBColorValid(r.value, g.value, b.value)
        THEN <<r.value, g.value, b.value>>
        ELSE Black

HexChars == {"f", "1", "g", "+", "-"}

\* the colour strings tried: up to two '#' followed by up to MaxHexLen
\* characters
HexColors ==
    {hashes \o body :
        hashes \in {<<>>, <<"#">>, <<"#", "#">>},
        body \in UNION {[1..n -> HexChars] : n \in 0..MaxHexLen}}

InitHex ==
    /\ hex_io \in [used : {TRUE}, hex_color : HexColors, called : {FALSE}, rgb : {Black}]
    /\ chunk_io = NotUsed
    /\ layout_io = NotUsed
    /\ slide_io = NotUsed
    /\ RendererNotUsed
    /\ theme_io = NotUsed
    /\ path_io = NotUsed
    /\ render_io = NotUsed

HexToRgb ==
    /\ ~hex_io.called
    /\ hex_io' = [hex_io EXCEPT !.called = TRUE, !.rgb = hex_to_rgb(hex_io.hex_color)]
    /\ UNCHANGED <<section_count, default_theme, call, lay_in, lay_out, bullet,
                   split_out, chunk_io, layout_io, slide_io,
                     theme_io, path_io, render_io>>

SpecHex == InitHex /\ [][HexToRgb]_vars

(***************************************************************************)
(* rendering/content_fillers.py: ContentFiller._fill_bullets, one bullet   *)
(***************************************************************************)
\* a run of a paragraph
Run(text, bold) == [text |-> text, bold |-> bold]

\* the runs of the paragraph the loop body makes of one bullet: a bold and
\* a plain run if both parts are non-empty, else p.text = bullet
bullet_paragraph(b) ==
    LET parts == split_bullet_for_bold(b)
    IN  IF parts.matched /\ parts.bold # <<>> /\ parts.plain # <<>>
        THEN <<Run(parts.bold, TRUE), Run(parts.plain, FALSE)>>
        ELSE IF b = <<>> THEN <<>> ELSE <<Run(b, FALSE)>>

InitParagraph ==
    /\ bullet \in Bullets
    /\ render_io = [used |-> TRUE, pc |-> "new", runs |-> <<>>]
    /\ split_out = NotSplit
    /\ chunk_io = NotUsed
    /\ layout_io = NotUsed
    /\ hex_io = NotUsed
    /\ slide_io = NotUsed
    /\ theme_io = NotUsed
    /\ path_io = NotUsed
    /\ lay_in = [layouts |-> <<>>, layout_type |-> "TITLE"]
    /\ lay_out = NotCalled
    /\ section_count = 0
    /\ default_theme = FALSE
    /\ call = [c \in Calls |-> IdleCall]

\* one iteration of the loop over the bullets
FillBullet ==
    /\ render_io.pc = "new"
    /\ render_io' = [render_io EXCEPT !.pc = "done", !.runs = bullet_paragraph(bullet)]
    /\ UNCHANGED <<section_count, default_theme, call, lay_in, lay_out, bullet,
                   split_out, chunk_io, layout_io, hex_io, slide_io,
                   theme_io, path_io>>

SpecParagraph == InitParagraph /\ [][FillBullet]_vars

(***************************************************************************)
(* One iteration of the slide loop, pass by pass                           *)
(* rendering/renderer.py: generate_presentation; content_fillers.py:       *)
(* fill_slide, _fill_title, _fill_content; theme_applicator.py             *)
(***************************************************************************)
\* pptx.util.Inches, for hundredths of an inch, in English Metric Units
Inches100(n) == n * 9144

\* where add_title_bar_to_content_slide puts the bar
BarLeft == Inches100(0)
BarTop == Inches100(40)

\* a shape of a slide
Shape(kind, left, top) == [kind |-> kind, left |-> left, top |-> top]

\* names of placeholders of slide layouts
P_Title1 == <<"T","i","t","l","e"," ","1">>
P_Subtitle2 == <<"S","u","b","t","i","t","l","e"," ","2">>
P_Content2 ==
    <<"C","o","n","t","e","n","t"," ","P","l","a","c","e","h","o","l","d","e","r"," ","2">>
P_Text2 == <<"T","e","x","t"," ","P","l","a","c","e","h","o","l","d","e","r"," ","2">>

\* the placeholders add_slide clones from the layout, by name and in order;
\* none for a layout without any (Blank)
PlaceholderLists ==
    {<<>>, <<P_Title1>>, <<P_Title1, P_Subtitle2>>, <<P_Title1, P_Content2>>,
     <<P_Title1, P_Text2>>, <<P_Text2>>}

\* where the layouts put their placeholders: below the top edge, inside the
\* left margin
PlaceholderLeft == Inches100(50)
PlaceholderTop == Inches100(30)

\* sub in name.lower()
NameHas(sub, name) == StrContains(sub, StrLower(name))

\* the first placeholder whose name has one of the words, 0 if none
FirstNamed(placeholders, words) ==
    IF \E i \in 1..Len(placeholders) : \E w \in words : NameHas(w, placeholders[i])
    THEN CHOOSE i \in 1..Len(placeholders) :
            /\ \E w \in words : NameHas(w, placeholders[i])
            /\ \A j \in 1..(i - 1) : \A w \in words : ~NameHas(w, placeholders[j])
    ELSE 0

W_title == <<"t","i","t","l","e">>
W_content == <<"c","o","n","t","e","n","t">>
W_body == <<"b","o","d","y">>

\* variant: the title bar is not looked for
has_title_bar_never(shapes) == FALSE

\* _fill_title: a shape stands where the title bar is put
has_title_bar(shapes) ==
    \E i \in 1..Len(shapes) : shapes[i].top = BarTop /\ shapes[i].left = BarLeft

\* _fill_title: the overlay if the slide has a title bar, else the
\* placeholder named title, else the first placeholder, else nothing
fill_title(shapes, placeholders) ==
    IF has_title_bar(shapes)
    THEN [ok |-> TRUE, mode |-> "overlay", placeholder |-> 0]
    ELSE IF FirstNamed(placeholders, {W_title}) # 0
    THEN [ok |-> TRUE, mode |-> "placeholder",
          placeholder |-> FirstNamed(placeholders, {W_title})]
    ELSE IF Len(placeholders) > 0
    THEN [ok |-> TRUE, mode |-> "placeholder", placeholder |-> 1]
    ELSE [ok |-> FALSE, mode |-> "none", placeholder |-> 0]

\* a warning of fill_slide
Warning(kind) == [kind |-> kind]

\* _fill_text, _fill_bullets, _fill_image, _fill_table, _fill_chart succeed
\* if the slide has a placeholder named content or body
HasContentPlaceholder(placeholders) == FirstNamed(placeholders, {W_content, W_body}) # 0

\* ContentFiller._fill_content: the warnings for one body item
fill_content_warnings(placeholders, content) ==
    IF Truthy(content.left) \/ Truthy(content.right) THEN <<>>
    ELSE IF content.type = "text"
         THEN IF Truthy(content.text)
              THEN IF HasContentPlaceholder(placeholders) THEN <<>>
                   ELSE <<Warning("text")>>
              ELSE <<>>
    ELSE IF content.type = "bullets"
         THEN IF HasContentPlaceholder(placeholders) THEN <<>>
              ELSE <<Warning("bullets")>>
    ELSE IF content.type \in {"image", "table", "chart"}
         THEN IF content[content.type] # None
              THEN IF HasContentPlaceholder(placeholders) THEN <<>>
                   ELSE <<Warning(content.type)>>
              ELSE <<>>
    ELSE IF content.type = "code"
         THEN <<>>
    ELSE <<>>

RECURSIVE fill_contents_warnings(_, _)
fill_contents_warnings(placeholders, body_content) ==
    IF body_content = <<>> THEN <<>>
    ELSE fill_content_warnings(placeholders, Head(body_content))
         \o fill_contents_warnings(placeholders, Tail(body_content))

\* a SlideContent of the given type with the given value in the field of
\* that type and None in every other field
PayloadItem(type, payload) ==
    [f \in {"text", "bullets", "image", "table", "chart", "code",
            "position", "left", "right"} |-> IF f = type THEN payload ELSE None]
      @@ [type |-> type]

\* the values tried in the field of a type: none, an empty one, a filled one
Payloads(type) ==
    IF type = "text" THEN {None, Some(<<>>), Some(T_a)}
    ELSE IF type = "bullets" THEN {None, Some(<<>>), Some(<<T_a>>)}
    ELSE IF type = "code" THEN {None, Some(<<>>), Some(<<"x">>)}
    ELSE {None, Some("spec")}

PayloadItems == UNION {{PayloadItem(t, p) : p \in Payloads(t)} : t \in ContentType}

\* the slide specifications rendered: a layout, an optional title and one
\* body item; the presentation's layout for it has one of the placeholder
\* lists; a theme applies or not
InitRender ==
    /\ render_io \in [used : {TRUE}, pc : {"layout"},
                      layout_type : LayoutType, themed : BOOLEAN,
                      title : {None, Some(T_title)},
                      content : {<<item>> : item \in PayloadItems},
                      placeholders : PlaceholderLists,
                      shapes : {<<>>}, passes : {<<>>}, background : {FALSE},
                      title_mode : {"unset"}, title_placeholder : {0},
                      warnings : {<<>>}, slides_generated : {0}, number : {0}]
    /\ bullet = <<>>
    /\ split_out = NotSplit
    /\ chunk_io = NotUsed
    /\ layout_io = NotUsed
    /\ hex_io = NotUsed
    /\ slide_io = NotUsed
    /\ theme_io = NotUsed
    /\ path_io = NotUsed
    /\ lay_in = [layouts |-> <<>>, layout_type |-> "TITLE"]
    /\ lay_out = NotCalled
    /\ section_count = 0
    /\ default_theme = FALSE
    /\ call = [c \in Calls |-> IdleCall]

RenderUnchanged ==
    UNCHANGED <<section_count, default_theme, call, lay_in, lay_out, bullet,
                split_out, chunk_io, layout_io, hex_io, slide_io,
                theme_io, path_io>>

\* get_layout and prs.slides.add_slide(layout): the slide has the layout's
\* placeholders
RenderAddSlide ==
    /\ render_io.pc = "layout"
    /\ render_io' = [render_io EXCEPT
            !.pc = "background",
            !.passes = Append(@, "layout"),
            !.shapes = [i \in 1..Len(render_io.placeholders) |->
                            Shape("placeholder", PlaceholderLeft, PlaceholderTop)]]
    /\ RenderUnchanged

\* apply_slide_background, if a theme applies
RenderBackground ==
    /\ render_io.pc = "background"
    /\ render_io' = IF render_io.themed
                    THEN [render_io EXCEPT !.pc = "title_bar", !.background = TRUE,
                                           !.passes = Append(@, "background")]
                    ELSE [render_io EXCEPT !.pc = "title_bar"]
    /\ RenderUnchanged

\* add_title_bar_to_content_slide, if a theme applies and the layout is one
\* of the content layouts
RenderTitleBar ==
    /\ render_io.pc = "title_bar"
    /\ render_io' = IF render_io.themed /\ render_io.layout_type \in TitleBarLayouts
                    THEN [render_io EXCEPT !.pc = "content",
                                           !.shapes = Append(@, Shape("bar", BarLeft, BarTop)),
                                           !.passes = Append(@, "title_bar")]
                    ELSE [render_io EXCEPT !.pc = "content"]
    /\ RenderUnchanged

\* fill_slide: the title, then the body items; slides_generated += 1
RenderFill ==
    LET title == fill_title(render_io.shapes, render_io.placeholders)
        drawn == Truthy(render_io.title)
        body == IF BodyOf(render_io.content) # <<>>
                THEN group_text_items_as_bullets(BodyOf(render_io.content))
                ELSE <<>>
    IN  /\ render_io.pc = "content"
        /\ render_io' = [render_io EXCEPT
                !.pc = "footer",
                !.passes = Append(@, "content"),
                !.title_mode = IF drawn THEN title.mode ELSE "unset",
                !.title_placeholder = IF drawn THEN title.placeholder ELSE 0,
                !.shapes = IF drawn /\ title.mode = "overlay"
                           THEN Append(@, Shape("title", Inches100(50), Inches100(45)))
                           ELSE @,
                !.warnings = (IF drawn /\ ~title.ok THEN <<Warning("title")>> ELSE <<>>)
                             \o fill_contents_warnings(render_io.placeholders, body),
                !.slides_generated = @ + 1]
        /\ RenderUnchanged

\* _add_footer_and_slide_number with the default footer settings
RenderFooter ==
    /\ render_io.pc = "footer"
    /\ render_io' = [render_io EXCEPT
            !.pc = "done",
            !.passes = Append(@, "footer"),
            !.number = render_io.slides_generated]
    /\ RenderUnchanged

NextRender ==
    \/ RenderAddSlide
    \/ RenderBackground
    \/ RenderTitleBar
    \/ RenderFill
    \/ RenderFooter

SpecRender == InitRender /\ [][NextRender]_vars
(***************************************************************************)
(* models/theme_spec.py: ThemeSpec                                         *)
(***************************************************************************)
\* the values a ThemeSpec is constructed from; a field that is left out
\* has its default None
ThemeSpecFields ==
    [scraped  : {None, Some("scraped"), Some("scraped_with_logo")},
     template : {None, Some("themes/default.potx"), Some("missing.potx")},
     colors   : {None, Some("colors")},
     fonts    : {None, Some("fonts")},
     logo     : {None, Some("logo")}]

\* ThemeSpec.model_post_init: colors and fonts given directly become the
\* scraped theme; only one of the two given raises
model_post_init(self) ==
    LET direct == self.colors # None /\ self.fonts # None /\ self.scraped = None
        incomplete == \/ self.colors # None /\ self.fonts = None
                      \/ self.fonts # None /\ self.colors = None
    IN  [raised |-> incomplete,
         theme  |-> IF direct THEN [self EXCEPT !.scraped = Some("direct")]
                              ELSE self]

InitTheme ==
    /\ theme_io \in {[used |-> TRUE, pc |-> "new", fields |-> f, raised |-> FALSE,
                      theme |-> f] : f \in ThemeSpecFields}
    /\ chunk_io = NotUsed
    /\ layout_io = NotUsed
    /\ hex_io = NotUsed
    /\ slide_io = NotUsed
    /\ path_io = NotUsed
    /\ render_io = NotUsed
    /\ section_count = 0
    /\ default_theme = FALSE
    /\ call = [c \in Calls |-> IdleCall]
    /\ lay_in = [layouts |-> <<>>, layout_type |-> "TITLE"]
    /\ lay_out = NotCalled
    /\ bullet = <<>>
    /\ split_out = NotSplit

\* ThemeSpec(**fields)
ConstructThemeSpec ==
    /\ theme_io.pc = "new"
    /\ theme_io' = [theme_io EXCEPT !.pc = "done",
                       !.raised = model_post_init(theme_io.fields).raised,
                       !.theme = model_post_init(theme_io.fields).theme]
    /\ UNCHANGED <<section_count, default_theme, call, lay_in, lay_out, bullet,
                   split_out, chunk_io, layout_io, hex_io, slide_io,
                   path_io, render_io>>

SpecTheme == InitTheme /\ [][ConstructThemeSpec]_vars

(***************************************************************************)
(* rendering/renderer.py: PresentationRenderer._generate_output_path       *)
(***************************************************************************)
DecimalDigits == {"0","1","2","3","4","5","6","7","8","9"}

\* str.isalnum() on one character
IsAlnum(ch) ==
    \/ \E i \in 1..26 : LowerChars[i] = ch \/ UpperChars[i] = ch
    \/ ch \in DecimalDigits

\* the characters the generator expression keeps
SafeChar(ch) == IsAlnum(ch) \/ ch \in {" ", "-", "_"}

\* Path(directory) / filename for a relative filename
PathJoin(directory, filename) == directory \o <<"/">> \o filename

\* variant: the kept characters are not stripped on the right
generate_output_path_noStrip(title, output, timestamp) ==
    IF output.filename # None /\ output.filename[1] # <<>>
    THEN PathJoin(output.directory, output.filename[1])
    ELSE LET safe_title == StrLower(StrReplace(SelectSeq(title, SafeChar), " ", "_"))
         IN  PathJoin(output.directory,
                      safe_title \o <<"_">> \o timestamp \o <<".">> \o output.format)

\* _generate_output_path, with the reading of the clock as an argument
generate_output_path(title, output, timestamp) ==
    IF output.filename # None /\ output.filename[1] # <<>>
    THEN PathJoin(output.directory, output.filename[1])
    ELSE LET kept == StrRStrip(SelectSeq(title, SafeChar))
             safe_title == StrLower(StrReplace(kept, " ", "_"))
         IN  PathJoin(output.directory,
                      safe_title \o <<"_">> \o timestamp \o <<".">> \o output.format)

TitleChars == {"A", "b", "1", " ", "-", "!"}
Titles == UNION {[1..n -> TitleChars] : n \in 0..MaxTitleLen}

\* datetime.now().strftime("%Y%m%d_%H%M%S") at two instants
Timestamps ==
    {<<"2","0","2","4","0","1","3","1","_","2","3","5","9","5","9">>,
     <<"2","0","2","4","0","2","0","1","_","0","0","0","0","0","0">>}

Filenames == {None, Some(<<>>), Some(<<"M","y"," ","D","!",".","p","p","t","x">>)}
Formats == {<<"p","p","t","x">>, <<"p","d","f">>}
OutputDirectory == <<"o","u","t">>

OutputSpecs ==
    [filename : Filenames, directory : {OutputDirectory}, format : Formats]

InitPath ==
    /\ path_io \in [used : {TRUE}, pc : {"new"}, title : Titles,
                    output : OutputSpecs, timestamp : {<<>>}, path : {<<>>}]
    /\ chunk_io = NotUsed
    /\ layout_io = NotUsed
    /\ hex_io = NotUsed
    /\ slide_io = NotUsed
    /\ theme_io = NotUsed
    /\ render_io = NotUsed
    /\ section_count = 0
    /\ default_theme = FALSE
    /\ call = [c \in Calls |-> IdleCall]
    /\ lay_in = [layouts |-> <<>>, layout_type |-> "TITLE"]
    /\ lay_out = NotCalled
    /\ bullet = <<>>
    /\ split_out = NotSplit

\* output_file = self._generate_output_path(deck_spec)
GenerateOutputPath ==
    /\ path_io.pc = "new"
    /\ \E now \in Timestamps :
         path_io' = [path_io EXCEPT !.pc = "done", !.timestamp = now,
                        !.path = generate_output_path(path_io.title, path_io.output, now)]
    /\ UNCHANGED <<section_count, default_theme, call, lay_in, lay_out, bullet,
                   split_out, chunk_io, layout_io, hex_io, slide_io,
                   theme_io, render_io>>

SpecPath == InitPath /\ [][GenerateOutputPath]_vars

(***************************************************************************)
(* Properties of the server handling one request after the other (Spec)    *)
(***************************************************************************)
\* the SECTION slides of a document, in document order
SectionSlides(doc) == SelectSeq(doc, LAMBDA sl : sl.layout_type = "SECTION")

\* the colour of the k-th SECTION slide of a deck, k = 0, 1, 2, ...
CycleColor(k) ==
    CASE k % 3 = 0 -> "accent"
      [] k % 3 = 1 -> "primary"
      [] OTHER -> "secondary"

\* the SECTION slides of call c follow the cycle from accent
FollowsCycle(c) ==
    \A k \in 1..Len(SectionSlides(call[c].doc)) :
        SectionSlides(call[c].doc)[k].background = CycleColor(k - 1)

\* C1: with a theme in effect, the k-th SECTION slide of a call has the
\* background accent, primary, secondary for k mod 3 = 0, 1, 2, in every call
\* of a sequence of calls on the same renderer, whatever the earlier calls
\* rendered.
C1_SectionCycle ==
    call[1].theme_to_apply # "none" => FollowsCycle(1)

\* a call that found the counter of an earlier call, and whose fourth
\* SECTION slide is back at accent
C1_Witness ==
    /\ call[1].stale
    /\ call[1].theme_to_apply # "none"
    /\ Len(SectionSlides(call[1].doc)) = 4
    /\ SectionSlides(call[1].doc)[4].background = "accent"

\* the number of slides of a call rendered without an exception
Completed(c) == Cardinality({i \in 1..Len(call[c].log) : call[c].log[i] = "ok"})

\* C2: a call in which slides raised inside the per-slide boundary, and
\* nothing raised outside it, returns ok = true, has gone through every slide
\* of the deck, and reports as slides_generated the number of slides rendered
\* without an exception.
C2_PartialDeck ==
    (call[1].pc = "done" /\ call[1].invoked /\ ~call[1].fatal) =>
        /\ call[1].result.ok
        /\ Len(call[1].log) = Len(call[1].slides)
        /\ call[1].result.slides_generated = Completed(1)

\* a returned call whose first slide raised and whose later slide rendered
C2_Witness ==
    /\ call[1].pc = "done"
    /\ ~call[1].fatal
    /\ Len(call[1].log) >= 3
    /\ call[1].log[1] = "failed"
    /\ call[1].log[2] = "ok"
    /\ call[1].log[3] = "failed"
    /\ call[1].result.slides_generated = 1

\* the warnings of the except handler of the slide loop, in order
FailWarnings(c) == SelectSeq(call[c].warnings, LAMBDA w : w.kind = "slide_failed")

\* the 1-based position in the deck of the j-th slide that failed
FailedPosition(c, j) ==
    CHOOSE p \in 1..Len(call[c].log) :
        /\ call[c].log[p] = "failed"
        /\ Cardinality({q \in 1..p : call[c].log[q] = "failed"}) = j

\* C3: the warning recorded for a slide that failed names the 1-based index
\* of that slide in the deck's slide list.
C3_WarningNamesIndex ==
    \A j \in 1..Len(FailWarnings(1)) : FailWarnings(1)[j].n = FailedPosition(1, j)

\* C4: when an exception is raised outside the per-slide boundary the call
\* returns the failure envelope: ok = false, an error message, no output and
\* slides_generated 0, also when slides were rendered before the failure.
C4_FatalEnvelope ==
    (call[1].pc = "done" /\ call[1].fatal) =>
        /\ call[1].result.ok = FALSE
        /\ call[1].result.error # "none"
        /\ call[1].result.output = "none"
        /\ call[1].result.slides_generated = 0

\* the save failed after two slides had been rendered
C4_Witness ==
    /\ call[1].pc = "done"
    /\ call[1].fatal
    /\ Completed(1) >= 2
    /\ call[1].result.error = "save"

\* the request has a slide whose layout name is no LayoutType name in any
\* spelling of case and separators
HasMisspelledLayout(args) ==
    \E i \in 1..Len(args.slides) : args.slides[i] = R_sektion

\* C5: a deck with a misspelled layout name is still generated: the renderer
\* runs, the slide is rendered with TITLE_CONTENT, a warning is recorded and
\* the request does not end in the validation failure.
C5_MisspelledLayoutDegrades ==
    (call[1].pc = "done" /\ HasMisspelledLayout(call[1].args)) =>
        /\ call[1].invoked
        /\ call[1].result.error # "validation"
        /\ \E i \in 1..Len(call[1].warnings) : call[1].warnings[i].kind = "layout_not_found"

\* C7: a deck with an empty slide list is rejected at validation: the
\* renderer is not invoked, no slide is rendered, no file is written and the
\* caller gets a failure result.
C7_EmptyDeckRejected ==
    (call[1].pc = "done" /\ Len(call[1].args.slides) = 0) =>
        /\ ~call[1].invoked
        /\ call[1].doc = <<>>
        /\ ~call[1].saved
        /\ call[1].result.ok = FALSE
        /\ call[1].result.error = "validation"

\* the answer to a request with an empty slide list
C7_Witness ==
    /\ call[1].pc = "done"
    /\ Len(call[1].args.slides) = 0
    /\ call[1].result = ValidationEnvelope

(***************************************************************************)
(* Properties of get_layout (SpecLayout)                                   *)
(***************************************************************************)
\* C6: for every LayoutType, get_layout returns a layout of the presentation
\* whenever the presentation has at least one slide layout, and None only
\* when it has none.
C6_LayoutTotal ==
    lay_out.called =>
        /\ (Len(lay_in.layouts) >= 1 => lay_out.layout \in 0..(Len(lay_in.layouts) - 1))
        /\ (Len(lay_in.layouts) = 0 => lay_out.layout = NoLayout)

\* CODE, which has no index mapping and no names, resolved on a presentation
\* with a single layout
C6_Witness ==
    /\ lay_out.called
    /\ lay_in.layout_type = "CODE"
    /\ Len(lay_in.layouts) = 1
    /\ lay_out.layout = 0

FirstAt(sub, s) ==
    CHOOSE i \in 1..Len(s) :
        /\ OccursAt(sub, s, i)
        /\ \A k \in 1..(i - 1) : ~OccursAt(sub, s, k)

\* the number of whitespace-separated words of s
WordCount(s) ==
    Cardinality({i \in 1..Len(s) : s[i] # " " /\ (i = 1 \/ s[i - 1] = " ")})

NonBlank(s) == \E i \in 1..Len(s) : s[i] # " "

\* s without its leading whitespace
DropLeading(s) ==
    IF NonBlank(s)
    THEN SubSeq(s, CHOOSE i \in 1..Len(s) : s[i] # " " /\ \A k \in 1..(i - 1) : s[k] = " ",
                Len(s))
    ELSE <<>>

\* s without its leading and trailing whitespace
DropAround(s) ==
    IF NonBlank(s)
    THEN SubSeq(DropLeading(s), 1,
                CHOOSE j \in 1..Len(DropLeading(s)) :
                    /\ DropLeading(s)[j] # " "
                    /\ \A k \in (j + 1)..Len(DropLeading(s)) : DropLeading(s)[k] = " ")
    ELSE <<>>

HasColon(b) == \E i \in 1..Len(b) : b[i] = ":"

ColonPrefix(b) == SubSeq(b, 1, FirstAt(<<":">>, b) - 1)

ColonRest(b) == SubSeq(b, FirstAt(<<":">>, b) + 1, Len(b))

\* the colon rule as stated: the plain part is the rest without its leading
\* whitespace
ColonRuleStated(b) ==
    IF HasColon(b) /\ WordCount(ColonPrefix(b)) \in 1..4
    THEN SplitOf(SubSeq(b, 1, FirstAt(<<":">>, b)) \o
                     (IF NonBlank(ColonRest(b)) THEN <<" ">> ELSE <<>>),
                 DropLeading(ColonRest(b)))
    ELSE NoSplit

\* C9 as stated: the colon rule splits a line whose prefix before the first
\* colon has 1 to 4 words into the line through the colon (plus a space when
\* non-blank text follows) and the rest with leading whitespace removed, and
\* returns (None, None) otherwise.
C9_ColonRule_Stated ==
    split_out.rule = "colon" => split_out.res = ColonRuleStated(bullet)

\* the colon rule of the code: leading whitespace is removed from the rest
\* only when the rest is not blank
ColonRuleAmended(b) ==
    IF HasColon(b) /\ WordCount(ColonPrefix(b)) \in 1..4
    THEN SplitOf(SubSeq(b, 1, FirstAt(<<":">>, b)) \o
                     (IF NonBlank(ColonRest(b)) THEN <<" ">> ELSE <<>>),
                 IF NonBlank(ColonRest(b)) THEN DropLeading(ColonRest(b))
                 ELSE ColonRest(b))
    ELSE NoSplit

\* C9 amended: as stated, except that a rest consisting of whitespace only is
\* returned unchanged as the plain part.
C9_ColonRule ==
    split_out.rule = "colon" => split_out.res = ColonRuleAmended(bullet)

\* a four-word prefix, and a rest whose leading whitespace is removed
C9_Witness ==
    /\ split_out.rule = "colon"
    /\ bullet = LeadingWords(4) \o <<":", " ", " ", "a">>
    /\ split_out.res = SplitOf(LeadingWords(4) \o <<":", " ">>, <<"a">>)

\* the colon rule did not match: no colon, or a colon prefix of 0 or 5+ words
ColonUnmatched(b) == ~HasColon(b) \/ WordCount(ColonPrefix(b)) \notin 1..4

HasDash(b) == \E i \in 1..Len(b) : OccursAt(DashLiteral, b, i)

DashPrefix(b) == SubSeq(b, 1, FirstAt(DashLiteral, b) - 1)

DashRest(b) == SubSeq(b, FirstAt(DashLiteral, b) + 3, Len(b))

\* C10 as stated: on a line on which the colon rule did not match, a prefix
\* of 1 to 4 words before the first " - " gives bold = prefix + " -" (plus a
\* space when text follows) and plain = the remainder; 5+ words, or no " - ",
\* give (None, None).
C10_DashRule_Stated ==
    (split_out.rule \in {"dash", "bold"} /\ ColonUnmatched(bullet)) =>
        IF ~HasDash(bullet) THEN split_out.res = NoSplit
        ELSE IF WordCount(DashPrefix(bullet)) \in 1..4
        THEN split_out.res =
                SplitOf(DashPrefix(bullet) \o <<" ", "-">> \o
                            (IF NonBlank(DashRest(bullet)) THEN <<" ">> ELSE <<>>),
                        DashRest(bullet))
        ELSE IF WordCount(DashPrefix(bullet)) >= 5 THEN split_out.res = NoSplit
        ELSE TRUE

\* C10 amended: the prefix is taken without its surrounding whitespace, the
\* remainder loses its leading whitespace when it is not blank, and a prefix
\* without words gives (None, None) as well.
C10_DashRule ==
    (split_out.rule \in {"dash", "bold"} /\ ColonUnmatched(bullet)) =>
        IF HasDash(bullet) /\ WordCount(DashPrefix(bullet)) \in 1..4
        THEN split_out.res =
                SplitOf(DropAround(DashPrefix(bullet)) \o <<" ", "-">> \o
                            (IF NonBlank(DashRest(bullet)) THEN <<" ">> ELSE <<>>),
                        IF NonBlank(DashRest(bullet)) THEN DropLeading(DashRest(bullet))
                        ELSE DashRest(bullet))
        ELSE split_out.res = NoSplit

\* a four-word prefix before " - "
C10_Witness ==
    /\ split_out.rule = "dash"
    /\ bullet = LeadingWords(4) \o <<" ", "-", " ", "a">>
    /\ split_out.res = SplitOf(LeadingWords(4) \o <<" ", "-", " ">>, <<"a">>)

\* both rules qualify: 1 to 4 words before the first colon and 1 to 4 words
\* before the first " - "
BothQualify(b) ==
    /\ HasColon(b) /\ WordCount(ColonPrefix(b)) \in 1..4
    /\ HasDash(b) /\ WordCount(DashPrefix(b)) \in 1..4

\* the number of places at which " - " occurs in s
DashCount(s) == Cardinality({i \in 1..Len(s) : OccursAt(DashLiteral, s, i)})

\* the line through its first colon
ThroughColon(b) == SubSeq(b, 1, FirstAt(<<":">>, b))

\* s is the end of b
IsSuffix(s, b) == Len(s) <= Len(b) /\ s = SubSeq(b, Len(b) - Len(s) + 1, Len(b))

\* a " - " begins in the whitespace that directly follows the first colon
DashFollowsColon(b) ==
    /\ Len(ColonRest(b)) > 0 /\ ColonRest(b)[1] = " "
    /\ Len(DropLeading(ColonRest(b))) >= 2
    /\ SubSeq(DropLeading(ColonRest(b)), 1, 2) = <<"-", " ">>

LineCount(s) == 1 + Cardinality({i \in 1..Len(s) : s[i] = NewLine})

\* n / m rounded up
CeilDiv(n, m) == (n + m - 1) \div m

\* C12: for max_lines_per_slide >= 1, a code of at most that many lines
\* gives the one-element list holding the code unchanged; a longer code gives
\* ceil(lines / max) chunks, each but the last of exactly max lines and the
\* last of 1 to max lines.
C12_ChunkSizes ==
    chunk_io.used /\ chunk_io.called =>
        LET n == LineCount(chunk_io.code)
            m == chunk_io.max_lines_per_slide
            chunks == chunk_io.chunks
        IN  IF n <= m THEN chunks = <<chunk_io.code>>
            ELSE /\ Len(chunks) = CeilDiv(n, m)
                 /\ \A i \in 1..(Len(chunks) - 1) : LineCount(chunks[i]) = m
                 /\ LineCount(chunks[Len(chunks)]) \in 1..m

\* five lines split two by two: two full chunks and a last chunk of one line
C12_Witness ==
    /\ chunk_io.used /\ chunk_io.called
    /\ chunk_io.max_lines_per_slide = 2
    /\ chunk_io.code = <<"x", NewLine, "x", NewLine, NewLine, NewLine, "x">>
    /\ chunk_io.chunks = <<<<"x", NewLine, "x">>, <<NewLine>>, <<"x">>>>

(***************************************************************************)
(* Properties of the content of one slide (SpecSlide)                      *)
(***************************************************************************)
Filled == slide_io.used /\ slide_io.pc = "filled"

\* the code texts placed on a slide, in order
RECURSIVE CodeTexts(_)
CodeTexts(placed) ==
    IF placed = <<>> THEN <<>>
    ELSE (IF Head(placed).op = "code" THEN <<Head(placed).text>> ELSE <<>>)
         \o CodeTexts(Tail(placed))

\* the code texts of all slides produced, slide after slide
RECURSIVE CodeTextsOfSlides(_)
CodeTextsOfSlides(slides) ==
    IF slides = <<>> THEN <<>>
    ELSE CodeTexts(Head(slides)) \o CodeTextsOfSlides(Tail(slides))

\* the body code items of more lines than the limit
LongCodeItems ==
    {i \in 1..Len(slide_io.content) :
        /\ slide_io.content[i].type = "code"
        /\ slide_io.content[i].position \notin {Some("title"), Some("subtitle")}
        /\ Truthy(slide_io.content[i].code)
        /\ LineCount(slide_io.content[i].code[1]) > DefaultMaxLines}

\* C13: a code item of more than 25 lines is rendered as its chunks, one
\* slide per chunk: no slide holds the whole code, and as many slides as
\* chunks are produced, each holding its chunk.
C13_CodeChunkedAcrossSlides ==
    Filled =>
        \A i \in LongCodeItems :
            LET code == slide_io.content[i].code[1]
                chunks == split_code_into_chunks(code, DefaultMaxLines)
            IN  /\ \A k \in 1..Len(slide_io.slides) :
                      \A j \in 1..Len(CodeTexts(slide_io.slides[k])) :
                          CodeTexts(slide_io.slides[k])[j] # code
                /\ Len(slide_io.slides) >= Len(chunks)
                /\ \A k \in 1..Len(chunks) :
                      \E j \in 1..Len(CodeTexts(slide_io.slides[k])) :
                          CodeTexts(slide_io.slides[k])[j] = chunks[k]

\* the content was accepted by the validation
Validated == slide_io.used /\ slide_io.pc \in {"valid", "filled"}

\* a content item with the given type, text and bullets and nothing else
ItemOf(type, text, bullets) ==
    [type |-> type, text |-> text, bullets |-> bullets, image |-> None,
     code |-> None, position |-> None, left |-> None, right |-> None]

\* the raw content is a list of n >= 2 bare strings, none of them blank
BareStringList ==
    /\ slide_io.raw.py = "list"
    /\ Len(slide_io.raw.l) >= 2
    /\ \A i \in 1..Len(slide_io.raw.l) :
          slide_io.raw.l[i].py = "str" /\ NonBlank(slide_io.raw.l[i].s)

\* the raw content is one mapping with the key 'items' alone
ItemsMapping == slide_io.raw.py = "dict" /\ DOMAIN slide_io.raw.d = {"items"}

\* C14: a content list of n >= 2 non-blank bare strings is accepted and
\* normalized to n text items, which the body grouping merges into exactly
\* one bullets item holding the same strings in order; a single mapping
\* {"items": L} without type is accepted and normalized to exactly one
\* bullets item whose bullets are L.
C14_StringsBecomeBullets ==
    /\ (slide_io.used /\ BareStringList) =>
           /\ slide_io.pc # "invalid"
           /\ Validated =>
                 slide_io.content = [i \in 1..Len(slide_io.raw.l) |->
                                        ItemOf("text", Some(slide_io.raw.l[i].s), None)]
           /\ Filled =>
                 slide_io.out.body_content =
                     <<ItemOf("bullets", None,
                              Some([i \in 1..Len(slide_io.raw.l) |-> slide_io.raw.l[i].s]))>>
    /\ (slide_io.used /\ ItemsMapping) =>
           /\ slide_io.pc # "invalid"
           /\ Validated =>
                 slide_io.content = <<ItemOf("bullets", None, Some(slide_io.raw.d["items"]))>>

\* two bare strings, merged into one bullets item
C14_Witness ==
    /\ Filled
    /\ slide_io.raw = PyList(<<PyStr(T_b), PyStr(T_a)>>)
    /\ slide_io.content = <<ItemOf("text", Some(T_b), None), ItemOf("text", Some(T_a), None)>>
    /\ slide_io.out.body_content = <<ItemOf("bullets", None, Some(<<T_b, T_a>>))>>

\* what the items of a raw list become: a non-blank bare string becomes a
\* text item, a blank one is dropped, a mapping is validated as it is
RECURSIVE ExpectedItems(_)
ExpectedItems(l) ==
    IF l = <<>> THEN <<>>
    ELSE (IF Head(l).py = "str"
          THEN IF NonBlank(Head(l).s)
               THEN <<ItemOf("text", Some(Head(l).s), None)>> ELSE <<>>
          ELSE <<SlideContent(normalize_item(Head(l).d))>>)
         \o ExpectedItems(Tail(l))

\* the raw content is a list of bare strings and mappings
StringsAndMappings ==
    /\ slide_io.raw.py = "list"
    /\ \A i \in 1..Len(slide_io.raw.l) : slide_io.raw.l[i].py \in {"str", "dict"}

\* C16: a bare non-blank string becomes a text item with that text, as an
\* element of a content list and as the content field itself; a blank
\* string is dropped without error, the other items keeping their order.
C16_BareStringBecomesText ==
    /\ (slide_io.used /\ StringsAndMappings) =>
           /\ slide_io.pc # "invalid"
           /\ Validated => slide_io.content = ExpectedItems(slide_io.raw.l)
    /\ (slide_io.used /\ slide_io.raw.py = "str") =>
           /\ slide_io.pc # "invalid"
           /\ Validated => slide_io.content = ExpectedItems(<<slide_io.raw>>)

\* the plain text items of the body: of type text, with a text, without
\* columns
IsPlainText(item) ==
    /\ item.type = "text"
    /\ item.text # None /\ item.text[1] # <<>>
    /\ item.left \in {None, Some(<<>>)}
    /\ item.right \in {None, Some(<<>>)}

\* the body items: those not tagged title or subtitle
BodyItems ==
    SelectSeq(slide_io.content,
              LAMBDA item : item.position \notin {Some("title"), Some("subtitle")})

PlainTexts == SelectSeq(BodyItems, LAMBDA item : IsPlainText(item))

OtherItems == SelectSeq(BodyItems, LAMBDA item : ~IsPlainText(item))

\* C17: for a body mixing plain text items with items of other kinds, the
\* grouping returns one bullets item holding all plain texts in order when
\* there are two or more, or the one plain text item itself when there is
\* exactly one, followed by every other item unchanged, once each, in their
\* original order.
C17_GroupingKeepsOthers ==
    (Filled /\ PlainTexts # <<>> /\ OtherItems # <<>>) =>
        slide_io.out.body_content =
            (IF Len(PlainTexts) >= 2
             THEN <<ItemOf("bullets", None,
                           Some([i \in 1..Len(PlainTexts) |-> PlainTexts[i].text[1]]))>>
             ELSE PlainTexts)
            \o OtherItems

\* the content items tagged with a position that carry a text
Tagged(position) ==
    SelectSeq(slide_io.content,
              LAMBDA item : item.position = Some(position) /\ item.text # None)

\* the text used for a field: the explicit field when given, else the text of
\* the first item tagged with the position
FirstTagged(explicit, position) ==
    IF explicit # None /\ explicit[1] # <<>> THEN explicit
    ELSE IF Tagged(position) # <<>> THEN Tagged(position)[1].text
    ELSE None

\* C18: without an explicit title (subtitle) field, the text of the first
\* content item tagged position=title (subtitle) is used and later tagged
\* items are ignored; an explicit title (subtitle) field always takes
\* precedence over tagged items.
C18_FirstTaggedWins ==
    Filled =>
        /\ slide_io.out.title_text = FirstTagged(slide_io.title, "title")
        /\ slide_io.out.subtitle_text = FirstTagged(slide_io.subtitle, "subtitle")

(***************************************************************************)
(* Properties of the server on decks of all layout types (SpecAnyLayout)   *)
(***************************************************************************)
\* a theme is in effect for the call: the request's own, or the default one
ThemeInEffect == call[1].args.theme \/ default_theme

\* C19: a slide gets a title bar exactly when a theme is in effect and its
\* layout is TITLE_CONTENT, TWO_COL, TABLE, CHART or IMAGE_FOCUS; TITLE,
\* SECTION, CODE and BLANK slides never get one.
C19_TitleBar ==
    \A i \in 1..Len(call[1].doc) :
        LET slide == call[1].doc[i]
        IN  /\ slide.title_bar <=>
                  /\ ThemeInEffect
                  /\ slide.layout_type \in
                         {"TITLE_CONTENT", "TWO_COL", "TABLE", "CHART", "IMAGE_FOCUS"}
            /\ slide.layout_type \in {"TITLE", "SECTION", "CODE", "BLANK"}
                  => ~slide.title_bar

\* a themed deck of a table slide with a title bar and a code slide without
C19_Witness ==
    /\ call[1].pc = "done"
    /\ ThemeInEffect
    /\ Len(call[1].doc) = 2
    /\ call[1].doc[1].layout_type = "TABLE" /\ call[1].doc[1].title_bar
    /\ call[1].doc[2].layout_type = "CODE" /\ ~call[1].doc[2].title_bar

(***************************************************************************)
(* Properties of the layout field (SpecLayoutField)                        *)
(***************************************************************************)
\* s differs from name only in letter case and in space or hyphen for
\* underscore
SameUpToSpelling(s, name) ==
    /\ Len(s) = Len(name)
    /\ \A i \in 1..Len(name) :
          IF name[i] = "_" THEN s[i] \in {"_", "-", " "}
          ELSE (\E k \in 1..26 : UpperChars[k] = name[i] /\ s[i] \in {UpperChars[k], LowerChars[k]})

\* C15: every layout string that differs from a layout name only in letter
\* case and in space or hyphen for underscore validates to that layout;
\* normalizing a canonical name changes nothing.
C15_LayoutNormalization ==
    (layout_io.used /\ layout_io.validated) =>
        /\ \A t \in LayoutType :
              SameUpToSpelling(layout_io.raw, LayoutValue[t]) => layout_io.members = {t}
        /\ (\E t \in LayoutType : layout_io.raw = LayoutValue[t]) =>
              layout_io.normalized = layout_io.raw

\* "Title content" validates to TITLE_CONTENT
C15_Witness ==
    /\ layout_io.used /\ layout_io.validated
    /\ layout_io.raw = <<"T","i","t","l","e"," ","c","o","n","t","e","n","t">>
    /\ layout_io.members = {"TITLE_CONTENT"}

(***************************************************************************)
(* Properties of hex_to_rgb (SpecHex)                                      *)
(***************************************************************************)
\* the string without one leading '#'
WithoutHash(s) == IF s # <<>> /\ s[1] = "#" THEN Tail(s) ELSE s

SixHexDigits(s) ==
    Len(s) = 6 /\ \A i \in 1..6 : s[i] \in {"0","1","2","3","4","5","6","7","8","9",
                                              "a","b","c","d","e","f",
                                              "A","B","C","D","E","F"}

\* the value of the two hex digits of s at positions i and i + 1
PairValue(s, i) == 16 * HexDigitValue(s[i]) + HexDigitValue(s[i + 1])

\* C20: hex_to_rgb returns for every string: after a leading '#' is removed,
\* a string of exactly 6 hex digits gives the RGB triple of its digit pairs
\* and every other string (wrong length, or a character that is no hex
\* digit) gives black.
C20_HexToRgb ==
    (hex_io.used /\ hex_io.called) =>
        LET s == WithoutHash(hex_io.hex_color)
        IN  IF SixHexDigits(s)
            THEN hex_io.rgb = <<PairValue(s, 1), PairValue(s, 3), PairValue(s, 5)>>
            ELSE hex_io.rgb = Black

(***************************************************************************)
(* More properties of the chunk splitter (SpecChunks)                      *)
(***************************************************************************)
\* the texts of a list, with a line break between each two
RECURSIVE JoinedByNewLine(_)
JoinedByNewLine(texts) ==
    IF texts = <<>> THEN <<>>
    ELSE IF Len(texts) = 1 THEN texts[1]
    ELSE texts[1] \o <<NewLine>> \o JoinedByNewLine(Tail(texts))

\* C29 as stated: the chunks joined by line breaks are the code, and no
\* chunk is empty.
C29_ChunksRoundTrip_Stated ==
    (chunk_io.used /\ chunk_io.called) =>
        /\ JoinedByNewLine(chunk_io.chunks) = chunk_io.code
        /\ \A i \in 1..Len(chunk_io.chunks) : chunk_io.chunks[i] # <<>>

\* C29 amended: the chunks joined by line breaks are the code, there is at
\* least one chunk, and a chunk is the empty text only when it is one empty
\* line of the code: the code is empty, or the limit is 1, or the chunk is
\* the last one.
C29_ChunksRoundTrip ==
    (chunk_io.used /\ chunk_io.called) =>
        /\ JoinedByNewLine(chunk_io.chunks) = chunk_io.code
        /\ Len(chunk_io.chunks) >= 1
        /\ \A i \in 1..Len(chunk_io.chunks) :
              chunk_io.chunks[i] = <<>> =>
                  \/ chunk_io.code = <<>>
                  \/ chunk_io.max_lines_per_slide = 1
                  \/ i = Len(chunk_io.chunks)

\* a code ending in a line break: the last chunk is its empty last line
C29_Witness ==
    /\ chunk_io.used /\ chunk_io.called
    /\ chunk_io.max_lines_per_slide = 2
    /\ chunk_io.code = <<"x", NewLine, "x", NewLine>>
    /\ chunk_io.chunks = <<<<"x", NewLine, "x">>, <<>>>>

(***************************************************************************)
(* More properties of the server on decks of all layout types              *)
(* (SpecAnyLayout)                                                         *)
(***************************************************************************)
\* a step of the slide loop of the call that adds a slide to the document
AddsSlide == Len(call'[1].doc) = Len(call[1].doc) + 1

\* the slide added by such a step
AddedSlide == call'[1].doc[Len(call'[1].doc)]

\* what one step of a running generation, after the reset at its start, does
\* to the rotation counter
CounterStep ==
    call[1].pc \in {"loop", "await"} =>
        /\ section_count' >= section_count
        /\ IF AddsSlide /\ call[1].theme_to_apply # "none"
           THEN /\ section_count' =
                      IF AddedSlide.layout_type = "SECTION"
                      THEN section_count + 1 ELSE section_count
                /\ AddedSlide.layout_type = "TITLE" => AddedSlide.background = "primary"
                /\ AddedSlide.layout_type \notin {"TITLE", "SECTION"}
                      => AddedSlide.background = "background"
           ELSE section_count' = section_count

\* C26: within one deck generation, after the reset at its start, the
\* rotation counter never decreases: it increases by exactly 1 for each
\* SECTION slide whose background is applied and is unchanged by every other
\* step; the background of a TITLE slide is primary, that of every other
\* non-SECTION slide the palette background.
C26_CounterMonotone == [][CounterStep]_vars

\* a themed deck of a section slide and a code slide: the counter is 1 after
\* both, and the code slide has the palette background
C26_Witness ==
    /\ call[1].pc = "done"
    /\ call[1].theme_to_apply # "none"
    /\ Len(call[1].doc) = 2
    /\ call[1].doc[1].layout_type = "SECTION"
    /\ call[1].doc[2].layout_type = "CODE"
    /\ call[1].doc[2].background = "background"
    /\ section_count = 1

(***************************************************************************)
(* Properties of the server on template files (SpecTemplate)               *)
(***************************************************************************)
\* C30: at the end of every per-slide iteration the document holds exactly
\* slides_generated slides, and the number written in the footer of each
\* slide is its 1-based position in the document.
C30_DocumentMatchesCount ==
    (call[1].pc = "loop" /\ call[1].pos > 1) =>
        /\ Len(call[1].doc) = call[1].slides_generated
        /\ \A i \in 1..Len(call[1].doc) : call[1].doc[i].number = i

\* the tier through which get_layout resolved the layout of a slide of the
\* document
TierOf(slide) == LayoutTier(call[1].layouts, slide.layout_type)

\* C22: whenever the layout of a slide was resolved through a fallback tier
\* (name match, index 1, index 0) instead of the direct index mapping, the
\* warnings of the result hold a warning that names the tier.
C22_FallbackTierWarned ==
    call[1].pc = "done" =>
        \A i \in 1..Len(call[1].doc) :
            (call[1].doc[i].layout_type \in LayoutType
             /\ TierOf(call[1].doc[i]) \in {"name", "fallback1", "fallback0"}) =>
                \E j \in 1..Len(call[1].result.warnings) :
                    /\ call[1].result.warnings[j].kind = "layout_fallback"
                    /\ call[1].result.warnings[j].n = i

(***************************************************************************)
(* Properties of the tool call (SpecTool)                                  *)
(***************************************************************************)
\* the keys every envelope of generate_presentation carries
EnvelopeKeys == {"ok", "output", "slides_generated", "warnings"}

\* C24: every generate_presentation tool call that has returned (valid
\* deck, invalid deck, missing deck_spec argument, fatal render error)
\* returned an envelope with the keys ok, output, slides_generated and
\* warnings, and with an error when ok is false.
C24_UniformEnvelope ==
    call[1].pc = "done" =>
        /\ EnvelopeKeys \subseteq DOMAIN call[1].result
        /\ ~call[1].result.ok =>
              /\ "error" \in DOMAIN call[1].result
              /\ call[1].result.error # "none"

(***************************************************************************)
(* Properties of ThemeSpec (SpecTheme)                                     *)
(***************************************************************************)
\* C25: a ThemeSpec constructed with no theme source (no scraped theme, no
\* template, no direct palette) fails validation, while one with only a
\* template or only a scraped theme is accepted.
C25_ThemeSourceRequired ==
    theme_io.pc = "done" =>
        LET f == theme_io.fields
        IN  /\ (f.scraped = None /\ f.template = None /\ f.colors = None
                    /\ f.fonts = None) => theme_io.raised
            /\ ((f.scraped = None) # (f.template = None) /\ f.colors = None
                    /\ f.fonts = None) => ~theme_io.raised

(***************************************************************************)
(* Properties of the output path (SpecPath)                                *)
(***************************************************************************)
\* the characters of the title that are alphanumerics, spaces, hyphens or
\* underscores, in their order
Reduced(title) ==
    SelectSeq(title, LAMBDA ch : ch \in {"A", "b", "1", " ", "-", "_"})

\* one character of the slug: a space becomes an underscore, a letter its
\* lower case
SlugChar(ch) == IF ch = " " THEN "_" ELSE IF ch = "A" THEN "a" ELSE ch

\* the path is the directory, a separator and the name
PathIs(name) ==
    /\ Len(path_io.path) = Len(OutputDirectory) + 1 + Len(name)
    /\ SubSeq(path_io.path, 1, Len(OutputDirectory)) = OutputDirectory
    /\ path_io.path[Len(OutputDirectory) + 1] = "/"
    /\ SubSeq(path_io.path, Len(OutputDirectory) + 2, Len(path_io.path)) = name

\* the generated name is the slug, '_', the timestamp, '.', the extension
GeneratedNameIs(slug) ==
    PathIs(slug \o <<"_">> \o path_io.timestamp \o <<".">> \o path_io.output.format)

\* C23 as stated: the explicit filename is used verbatim when one is given;
\* otherwise the name is every alphanumeric, space, hyphen and underscore
\* of the title, spaces as underscores and lower-cased, then '_', the
\* timestamp, '.', and the format.
C23_OutputPath_Stated ==
    path_io.pc = "done" =>
        IF path_io.output.filename # None
        THEN PathIs(path_io.output.filename[1])
        ELSE GeneratedNameIs([i \in 1..Len(Reduced(path_io.title)) |->
                                 SlugChar(Reduced(path_io.title)[i])])

\* the position of the last character of s that is no space, 0 if none
LastNonSpace(s) ==
    IF \E i \in 1..Len(s) : s[i] # " "
    THEN CHOOSE i \in 1..Len(s) : s[i] # " " /\ \A j \in (i + 1)..Len(s) : s[j] = " "
    ELSE 0

\* C23: a non-empty explicit filename is used verbatim after the output
\* directory; with no filename or an empty one the name is the title
\* reduced to its alphanumerics, spaces, hyphens and underscores, without
\* the spaces left at its end, spaces as underscores and lower-cased, then
\* '_', the timestamp, '.', and the format.
C23_OutputPath ==
    path_io.pc = "done" =>
        IF path_io.output.filename # None /\ path_io.output.filename[1] # <<>>
        THEN PathIs(path_io.output.filename[1])
        ELSE GeneratedNameIs([i \in 1..LastNonSpace(Reduced(path_io.title)) |->
                                 SlugChar(Reduced(path_io.title)[i])])

\* the title "A !" has been turned into the name "a_<timestamp>.pptx": the
\* space left at the end by the removal of '!' is not in the name
C23_Witness ==
    /\ path_io.used
    /\ path_io.pc = "done"
    /\ path_io.title = <<"A", " ", "!">>
    /\ path_io.output.filename = None
    /\ path_io.output.format = <<"p","p","t","x">>
    /\ path_io.path = OutputDirectory \o <<"/", "a", "_">> \o path_io.timestamp
                        \o <<".", "p", "p", "t", "x">>

(***************************************************************************)
(* Properties of the paragraph of a bullet (SpecParagraph)                 *)
(***************************************************************************)
\* the texts of the runs, one after the other
RECURSIVE RunsText(_)
RunsText(runs) ==
    IF runs = <<>> THEN <<>> ELSE Head(runs).text \o RunsText(Tail(runs))

\* C28: the paragraph of a bullet on which the bold-prefix heuristic
\* matches is a bold run holding the bold segment followed by a plain run
\* holding the remainder, also when the remainder is empty; the paragraph
\* of a bullet with no match holds the bullet and has no bold run.
C28_BoldRunThenPlainRun ==
    render_io.pc = "done" =>
        LET parts == split_bullet_for_bold(bullet)
        IN  IF parts.matched
            THEN /\ Len(render_io.runs) = 2
                 /\ render_io.runs[1] = [text |-> parts.bold, bold |-> TRUE]
                 /\ render_io.runs[2] = [text |-> parts.plain, bold |-> FALSE]
            ELSE /\ RunsText(render_io.runs) = bullet
                 /\ \A i \in 1..Len(render_io.runs) : ~render_io.runs[i].bold

(***************************************************************************)
(* Properties of one iteration of the slide loop (SpecRender)              *)
(***************************************************************************)
\* the passes of an iteration, in the order of the loop body
PassOrder == <<"layout", "background", "title_bar", "content", "footer">>
PassRank(pass) == CHOOSE r \in 1..Len(PassOrder) : PassOrder[r] = pass

\* the passes made so far were made in the order of the loop body
PassesInOrder ==
    \A i \in 1..Len(render_io.passes) : \A j \in 1..Len(render_io.passes) :
        i < j => PassRank(render_io.passes[i]) < PassRank(render_io.passes[j])

\* a title bar was added to the slide in this iteration
TitleBarAdded == \E i \in 1..Len(render_io.passes) : render_io.passes[i] = "title_bar"

\* the content pass of a slide that has a title is over
TitleHandled ==
    /\ render_io.used
    /\ render_io.pc \in {"footer", "done"}
    /\ render_io.title # None

TitleNamed == {P_Title1, P_Subtitle2}

MissingPayload(item) ==
    \/ item[item.type] = None
    \/ item.type \in {"text", "bullets", "code"} /\ item[item.type] = Some(<<>>)

\* C21: when the slide is done and its body item has no payload for its
\* declared type, the warnings of the slide hold a warning about the
\* content.
C21_MissingPayloadWarned ==
    (render_io.used /\ render_io.pc = "done") =>
        \A n \in 1..Len(render_io.content) :
            MissingPayload(render_io.content[n]) =>
                \E i \in 1..Len(render_io.warnings) : render_io.warnings[i].kind # "title"

====
